---- MODULE Spec2Model ----
(***************************************************************************)
(* Verification model of the ISEKAI confidential data-serving gateway:     *)
(*   - the attested Flight service of isekai-data-server (Handshake,       *)
(*     DoGet, DoPut and the authorisation pipeline in front of them);      *)
(*   - the host-side asynchronous Flight client facade of mywasi-flight    *)
(*     (start_* / ready / finish_* over a background runtime).             *)
(*                                                                         *)
(* Strings are sequences of one-character strings, byte arrays are         *)
(* sequences of integers, Option<T> is <<>> (None) or <<x>> (Some(x)).     *)
(***************************************************************************)
EXTENDS Integers, Sequences, FiniteSets, TLC

(***************************************************************************)
(* Bounds of the model.                                                    *)
(***************************************************************************)
\* handshake streams that may be in flight at the same time
NStreams == 1
\* valid_tokens is never grown beyond this many entries
MaxTokens == 2

Streams == 1 .. NStreams

(***************************************************************************)
(* Option<T> and small string helpers.                                     *)
(***************************************************************************)
NoneV == << >>
Some(x) == << x >>
IsSome(o) == Len(o) > 0
IsNone(o) == Len(o) = 0
Unwrap(o) == o[1]

\* a byte of a header value that is not visible ASCII
NonAsciiByte == "0x80"

StrBearerSp == << "B", "e", "a", "r", "e", "r", " " >>
StrTest == << "t", "e", "s", "t" >>

\* the n-byte array whose bytes are all b
Bytes(n, b) == [i \in 1 .. n |-> b]

(***************************************************************************)
(* isekai-data-server: configuration and attestation values.               *)
(***************************************************************************)
\* let mut challenge = [0u8; 64];
ChallengeLen == 64
\* server_ld: Option<[u8; 48]>
MeasurementLen == 48
\* let mut token = [0u8; 64];
TokenLen == 64

ZeroChallenge == Bytes(ChallengeLen, 0)
\* snpguest::report::TEST_REQ_DATA[0..64] (the content of test/req.bin)
TEST_REQ_DATA == Bytes(ChallengeLen, 7)
\* values OsRng.fill_bytes(&mut challenge) may produce
Nonces == {Bytes(ChallengeLen, 1), Bytes(ChallengeLen, 2)}
\* values OsRng.fill_bytes(&mut token) may produce
TokenBytes == {Bytes(TokenLen, 10), Bytes(TokenLen, 171)}

MeasurementA == Bytes(MeasurementLen, 65)
MeasurementB == Bytes(MeasurementLen, 66)
Measurements == {MeasurementA, MeasurementB}
ReportDatas == {ZeroChallenge, TEST_REQ_DATA, Bytes(ChallengeLen, 1)}

\* the round-2 handshake payloads: what the attestation verifier makes of the
\* payload (accept / reject) and the fields of the report it carries
Reports ==
    [verifier : {"accept"}, report_data : ReportDatas,
     measurement : Measurements]
    \cup {[verifier |-> "reject", report_data |-> ZeroChallenge,
           measurement |-> MeasurementB],
          [verifier |-> "reject", report_data |-> TEST_REQ_DATA,
           measurement |-> MeasurementA]}

HexDigits ==
    << "0", "1", "2", "3", "4", "5", "6", "7", "8", "9", "a", "b", "c", "d",
       "e", "f" >>

\* format!("{:02x}", x) for every byte, collected into one String
HexEncode(bytes) ==
    [i \in 1 .. 2 * Len(bytes) |->
        IF i % 2 = 1
        THEN HexDigits[(bytes[(i + 1) \div 2] \div 16) + 1]
        ELSE HexDigits[(bytes[i \div 2] % 16) + 1]]

Status(code, msg) == [code |-> code, msg |-> msg]

VARIABLES
    cmd_opts,       \* CmdOptions of the server launch
    server_ld,      \* FlightServiceImpl.server_ld
    valid_tokens,   \* FlightServiceImpl.valid_tokens (a Vec<String>)
    hs,             \* the handshake streams: one record per stream slot
    rpc,            \* outcome of the latest DoGet / DoPut call
    storage_db,     \* the SQLite database behind cmd_opts.storage_db
    stcall,         \* the latest call of a storage function and its result
    client,         \* the HostFlightClient resource: state and token
    oneshot,        \* the one-shot channel the client's state holds
    task,           \* the background task spawned by the latest start_*
    dataq,          \* the mpsc data queue of a DoPut
    call,           \* the latest facade call and the code it returned
    ctx,            \* FlightCtx of the client host: the configured JWT
    request,        \* the tonic Request built by the running DoGet/DoPut task
    flight_descriptor,  \* `flight_descriptor` of the DoPut request stream
    put_trace,      \* record of one DoPut: frames accepted, frames yielded
    fds,            \* a FlightDataStream over a BodyDataStream, and its output
    fpd,            \* a FunctionPolicyDef and the latest assert_value on it
    incoming,       \* the incoming response resource that finish_do_* pushed
    bridge          \* the HTTP bridge component: the handler's locals

configVars == << cmd_opts, server_ld, ctx >>
dataVars == << rpc, storage_db, stcall >>
serverVars ==
    << cmd_opts, server_ld, ctx, valid_tokens, hs, rpc, storage_db, stcall >>
putVars == << flight_descriptor, put_trace >>
clientVars ==
    << client, oneshot, task, dataq, call, request, putVars, incoming, bridge >>
codecVars == << fds, fpd >>
\* everything outside the host's flight resources
outsideVars == << serverVars, codecVars, bridge >>
\* everything outside the client facade
otherVars == << outsideVars, incoming >>
vars == << serverVars, clientVars, codecVars >>

\* A handshake stream slot before the handler has been called on it.  cnt and
\* challenge are the handler's locals; sent is the output stream so far and
\* status the status the stream ended with; nreq counts the requests taken
\* from the inbound stream and report remembers the round-2 payload.
IdleStream ==
    [open |-> FALSE, cnt |-> 0, challenge |-> ZeroChallenge, nreq |-> 0,
     report |-> NoneV, sent |-> << >>, status |-> NoneV]

report_data_matches_always(att_report, challenge) == TRUE

\* if att_report.report_data != challenge { return Err(unauthenticated) }
report_data_matches(att_report, challenge) ==
    att_report.report_data = challenge

launch_digest_matches_always(att_report, ld) == TRUE

\* if let Some(ld) = server_ld { if att_report.measurement != ld { Err } }
launch_digest_matches(att_report, ld) ==
    IsSome(ld) => att_report.measurement = Unwrap(ld)

\* the cnt == 1 branch of the handshake loop: the status the round ends the
\* stream with, or none when the report passes every check
handshake_round2_error(req, challenge, ld) ==
    IF req.verifier # "accept"
    THEN Some(Status("unauthenticated", "failed to verify attestation report"))
    ELSE IF ~report_data_matches(req, challenge)
    THEN Some(Status("unauthenticated",
                     "attestation report data does not match challenge"))
    ELSE IF ~launch_digest_matches(req, ld)
    THEN Some(Status("unauthenticated",
                     "launch digest does not match expected value"))
    ELSE NoneV

\* the branch of `if cnt == 0 {..} else if cnt == 1 {..} else {..}`
handshake_branch_else(cnt) ==
    IF cnt = 0 THEN "round1" ELSE "round2"

handshake_branch(cnt) ==
    IF cnt = 0 THEN "round1" ELSE IF cnt = 1 THEN "round2" ELSE "too_many"

HandshakeResponse(payload) == [protocol_version |-> 1, payload |-> payload]

(***************************************************************************)
(* Handshake: the handler is called on a stream slot that is not in use.   *)
(***************************************************************************)
HandshakeOpen(s) ==
    /\ ~hs[s].open \/ IsSome(hs[s].status)
    /\ hs' = [hs EXCEPT ![s] = [IdleStream EXCEPT !.open = TRUE]]
    /\ UNCHANGED << configVars, dataVars, valid_tokens, clientVars, codecVars >>

\* One iteration of `while let Some(handshake_request) = inbound.next().await`
\* with an Ok request, by the branch taken on cnt.
\* cnt == 0: nonce is the value OsRng would draw
HandshakeRound1(s, nonce) ==
    LET h == hs[s]
        c == IF cmd_opts.use_test_challenge THEN TEST_REQ_DATA ELSE nonce
    IN
    /\ h.open /\ IsNone(h.status) /\ handshake_branch(h.cnt) = "round1"
    /\ hs' = [hs EXCEPT ![s] =
                [h EXCEPT !.cnt = @ + 1, !.challenge = c, !.nreq = @ + 1,
                          !.sent = Append(@, HandshakeResponse(c))]]
    /\ UNCHANGED << configVars, dataVars, valid_tokens, clientVars, codecVars >>
HandshakeRound2_replies_unregistered(s, req, token) ==
    LET h == hs[s]
        err == handshake_round2_error(req, h.challenge, server_ld)
    IN
    /\ h.open /\ IsNone(h.status) /\ handshake_branch(h.cnt) = "round2"
    /\ IF IsSome(err)
       THEN /\ hs' = [hs EXCEPT ![s] =
                        [h EXCEPT !.cnt = @ + 1, !.nreq = @ + 1,
                                  !.report = Some(req),
                                  !.status = err]]
            /\ UNCHANGED valid_tokens
       ELSE /\ Len(valid_tokens) < MaxTokens
            /\ UNCHANGED valid_tokens
            /\ hs' = [hs EXCEPT ![s] =
                        [h EXCEPT !.cnt = @ + 1, !.nreq = @ + 1,
                                  !.report = Some(req),
                                  !.sent = Append(@,
                                     HandshakeResponse(HexEncode(token)))]]
    /\ UNCHANGED << configVars, dataVars, clientVars, codecVars >>

\* cnt == 1: req is the payload, token the bytes OsRng would draw.  req.verifier
\* is the verdict of snpguest::verify2::fetch_and_verify_async on the payload;
\* writing the payload to the temporary file is taken to succeed.
HandshakeRound2(s, req, token) ==
    LET h == hs[s]
        err == handshake_round2_error(req, h.challenge, server_ld)
    IN
    /\ h.open /\ IsNone(h.status) /\ handshake_branch(h.cnt) = "round2"
    /\ IF IsSome(err)
       THEN /\ hs' = [hs EXCEPT ![s] =
                        [h EXCEPT !.cnt = @ + 1, !.nreq = @ + 1,
                                  !.report = Some(req),
                                  !.status = err]]
            /\ UNCHANGED valid_tokens
       ELSE /\ Len(valid_tokens) < MaxTokens
            /\ valid_tokens' = Append(valid_tokens, HexEncode(token))
            /\ hs' = [hs EXCEPT ![s] =
                        [h EXCEPT !.cnt = @ + 1, !.nreq = @ + 1,
                                  !.report = Some(req),
                                  !.sent = Append(@,
                                     HandshakeResponse(HexEncode(token)))]]
    /\ UNCHANGED << configVars, dataVars, clientVars, codecVars >>

\* cnt >= 2: Err(Status::internal("too many handshake requests"))?
HandshakeTooMany(s) ==
    LET h == hs[s] IN
    /\ h.open /\ IsNone(h.status) /\ handshake_branch(h.cnt) = "too_many"
    /\ hs' = [hs EXCEPT ![s] =
                [h EXCEPT !.nreq = @ + 1, !.status =
                    Some(Status("internal", "too many handshake requests"))]]
    /\ UNCHANGED << configVars, dataVars, valid_tokens, clientVars, codecVars >>

\* `let req = handshake_request?;` with an Err item on the inbound stream
HandshakeInboundError(s) ==
    /\ hs[s].open /\ IsNone(hs[s].status)
    /\ hs' = [hs EXCEPT ![s].status = Some(Status("transport", "inbound"))]
    /\ UNCHANGED << configVars, dataVars, valid_tokens, clientVars, codecVars >>

\* inbound.next() yields None: the client closed its side, the stream ends
HandshakeEnd(s) ==
    /\ hs[s].open /\ IsNone(hs[s].status)
    /\ hs' = [hs EXCEPT ![s].status = Some(Status("ok", ""))]
    /\ UNCHANGED << configVars, dataVars, valid_tokens, clientVars, codecVars >>

(***************************************************************************)
(* Authorisation pipeline of DoGet / DoPut.                                *)
(***************************************************************************)
Ok(v) == [ok |-> TRUE, val |-> v, err |-> ""]
Err(msg) == [ok |-> FALSE, val |-> << >>, err |-> msg]

\* request.metadata().get(name).ok_or_else(..).and_then(|value| ..): the text
\* that follows "Bearer " in the header value
bearer_value(header) ==
    IF IsNone(header)
    THEN Err("No token")
    ELSE LET value == Unwrap(header) IN
         IF Len(value) >= 7
         THEN IF \E i \in DOMAIN value : value[i] = NonAsciiByte
              THEN Err("invalid char")
              ELSE IF SubSeq(value, 1, 7) = StrBearerSp
                   THEN Ok(SubSeq(value, 8, Len(value)))
                   ELSE Err("Invalid format")
         ELSE Err("too short")

token_is_valid_if_any(tokens, token) ==
    tokens = << >> \/ \E i \in DOMAIN tokens : tokens[i] = token

\* self.valid_tokens.lock().unwrap().contains(&token)
token_is_valid(tokens, token) ==
    \E i \in DOMAIN tokens : tokens[i] = token

\* A JWT is the string <<h, v>> \o sub: h is "K" when its header names the key
\* id the JWKS holds, "U" when it names an unknown key id, "N" when it names
\* none (any other h does not decode); v is "V" when signature, audience and
\* expiry verify; sub is claims.sub.
decode_header_ok(jwt) == Len(jwt) >= 1 /\ jwt[1] \in {"K", "U", "N"}
header_kid(jwt) == IF jwt[1] = "N" THEN NoneV ELSE Some(jwt[1])
jwks_has_key(kid) == kid = "K"
decode_ok(jwt) == Len(jwt) >= 2 /\ jwt[2] = "V"
claims_sub(jwt) == SubSeq(jwt, 3, Len(jwt))

\* decoded_token.claims.sub.replace("|", "_")
replace_pipe(sub) == [i \in DOMAIN sub |-> IF sub[i] = "|" THEN "_" ELSE sub[i]]

\* the `if let Ok(jwt) = jwt` branch: decode_header, key lookup, decode
verify_jwt(jwt) ==
    IF ~decode_header_ok(jwt)
    THEN Err("jwt header should be decoded")
    ELSE IF IsNone(header_kid(jwt))
    THEN Err("jwt header should have a kid")
    ELSE IF ~jwks_has_key(Unwrap(header_kid(jwt)))
    THEN Err("jwt refer to a unknown key id")
    ELSE IF ~decode_ok(jwt)
    THEN Err("jwt should be valid")
    ELSE Ok(replace_pipe(claims_sub(jwt)))

\* let subject = if let Ok(jwt) = jwt { .. } else { "test".to_string() };
resolve_subject(auth) ==
    LET jwt == bearer_value(auth) IN
    IF jwt.ok THEN verify_jwt(jwt.val) ELSE Ok(StrTest)

authenticate_subject_allow_all(opts, subject) == TRUE

\* auth::authenticate_subject
authenticate_subject(opts, subject) ==
    IF IsSome(opts.authorized_subject)
    THEN subject = Unwrap(opts.authorized_subject)
    ELSE TRUE

\* The checks DoGet and DoPut run before they touch a provider or the store:
\* session token, JWT subject, authorized_subject.
authorize(tokens, opts, xyak, auth) ==
    LET tok == bearer_value(xyak) IN
    IF ~tok.ok
    THEN [ok |-> FALSE, status |-> Status("unauthenticated", tok.err),
          subject |-> NoneV]
    ELSE IF ~token_is_valid(tokens, tok.val)
    THEN [ok |-> FALSE, status |-> Status("unauthenticated", "Invalid token"),
          subject |-> NoneV]
    ELSE LET sub == resolve_subject(auth) IN
         IF ~sub.ok
         THEN [ok |-> FALSE, status |-> Status("unauthenticated", sub.err),
               subject |-> NoneV]
         ELSE IF ~authenticate_subject(opts, sub.val)
         THEN [ok |-> FALSE,
               status |-> Status("unauthenticated", "Unauthorized subject"),
               subject |-> Some(sub.val)]
         ELSE [ok |-> TRUE, status |-> Status("ok", ""),
               subject |-> Some(sub.val)]

(***************************************************************************)
(* storage.rs: the subject-scoped SQL table store.                         *)
(***************************************************************************)
Letters ==
    {"a", "b", "c", "d", "e", "f", "g", "h", "i", "j", "k", "l", "m", "n",
     "o", "p", "q", "r", "s", "t", "u", "v", "w", "x", "y", "z",
     "A", "B", "C", "D", "E", "F", "G", "H", "I", "J", "K", "L", "M", "N",
     "O", "P", "Q", "R", "S", "T", "U", "V", "W", "X", "Y", "Z"}
DigitChars == << "0", "1", "2", "3", "4", "5", "6", "7", "8", "9" >>
Digits == {DigitChars[i] : i \in 1 .. 10}

\* regex ^[a-zA-Z][a-zA-Z0-9_]*$
is_valid_sqlid(name) ==
    /\ Len(name) >= 1
    /\ name[1] \in Letters
    /\ \A i \in DOMAIN name : name[i] \in Letters \cup Digits \cup {"_"}

RECURSIVE Decimal(_)
\* format!("{}", now.as_secs())
Decimal(n) ==
    IF n < 10
    THEN << DigitChars[n + 1] >>
    ELSE Decimal(n \div 10) \o << DigitChars[(n % 10) + 1] >>

\* format!("{}_{}", subject, target)
table_name(subject, target) == subject \o << "_" >> \o target

\* the column type of CREATE TABLE for an Arrow data type
sql_column_type(data_type) ==
    CASE data_type = "Int32" -> "INTEGER"
      [] data_type = "Float32" -> "REAL"
      [] data_type = "Utf8" -> "TEXT"
      [] OTHER -> "BLOB"

FieldNames(schema) == {schema[i].name : i \in DOMAIN schema}

\* tables maps the name of each user table to its columns and rows; policy
\* is the table policy(table_name TEXT PRIMARY KEY, json TEXT)
EmptyDb == [tables |-> [n \in {} |-> 0], policy |-> [n \in {} |-> 0]]
HasTable(db, name) == name \in DOMAIN db.tables
TableOf(db, name) == db.tables[name]
HasPolicy(db, name) == name \in DOMAIN db.policy
PolicyOf(db, name) == db.policy[name]
\* the map f with key k set to v
Put(f, k, v) == [n \in DOMAIN f \cup {k} |-> IF n = k THEN v ELSE f[n]]

\* storage::create_storage; now is the clock reading in seconds.  sql lists
\* the SQL statements handed to SQLite.
create_storage(db, subject, schema, policy, now) ==
    LET target == Decimal(now)
        tbl_name == table_name(subject, target)
        created ==
            [db EXCEPT !.tables =
                Put(@, tbl_name,
                    [cols |-> [i \in DOMAIN schema |->
                                 [name |-> schema[i].name,
                                  decl |-> sql_column_type(schema[i].type)]],
                     rows |-> << >>])]
        R(ok, err, d, sql) ==
            [ok |-> ok, err |-> err, db |-> d, target |-> target, sql |-> sql]
    IN
    IF ~is_valid_sqlid(tbl_name)
    THEN R(FALSE, "Invalid table name", db, << >>)
    ELSE IF \E i \in DOMAIN schema : ~is_valid_sqlid(schema[i].name)
    THEN R(FALSE, "Invalid field name", db, << >>)
    ELSE IF \/ HasTable(db, tbl_name)
            \/ schema = << >>
            \/ Cardinality(FieldNames(schema)) # Len(schema)
    THEN R(FALSE, "sqlite: CREATE TABLE", db, << "CREATE TABLE" >>)
    ELSE IF IsNone(policy)
    THEN R(TRUE, "", created, << "CREATE TABLE" >>)
    ELSE IF HasPolicy(db, tbl_name)
    THEN R(FALSE, "sqlite: INSERT INTO policy", created,
           << "CREATE TABLE", "INSERT INTO policy" >>)
    ELSE R(TRUE, "",
           [created EXCEPT !.policy = Put(@, tbl_name, Unwrap(policy))],
           << "CREATE TABLE", "INSERT INTO policy" >>)

\* A value stored in a row: its SQLite storage class and its content
SqlNull == [kind |-> "Null", v |-> 0]
\* f32::NAN, written as its bit pattern 0x7FC00000; every other float of the
\* model is a whole number written as itself
NaN == 2143289344

\* the Arrow data types insert_data binds a parameter for
InsertableTypes == {"Boolean", "Int32", "Float32", "Utf8", "Binary"}

\* `column.as_..().value(i)` and `params.push(StorageValue::..)`: a cell of an
\* Arrow array is its validity bit and the content of its slot; value(i)
\* reads the slot whatever the validity bit says
storage_value(data_type, cell) ==
    CASE data_type = "Boolean" ->
            [kind |-> "Int32", v |-> IF cell.v = TRUE THEN 1 ELSE 0]
      [] data_type = "Int32" -> [kind |-> "Int32", v |-> cell.v]
      [] data_type = "Float32" -> [kind |-> "Float32", v |-> cell.v]
      [] data_type = "Utf8" -> [kind |-> "Utf8", v |-> cell.v]
      [] data_type = "Binary" -> [kind |-> "Blob", v |-> cell.v]

\* <StorageValue as ToSql>::to_sql and the binding of the parameter: SQLite
\* stores a NaN as NULL
to_sql(value) ==
    CASE value.kind = "Int32" -> [kind |-> "Integer", v |-> value.v]
      [] value.kind = "Float32" ->
            IF value.v = NaN THEN SqlNull ELSE [kind |-> "Real", v |-> value.v]
      [] value.kind = "Utf8" -> [kind |-> "Text", v |-> value.v]
      [] value.kind = "Blob" -> [kind |-> "Blob", v |-> value.v]

\* the column affinity SQLite applies to a value stored in a column declared
\* INTEGER, REAL, TEXT or BLOB (the numbers of the model are whole)
column_affinity(decl, value) ==
    IF decl = "REAL" /\ value.kind = "Integer"
    THEN [kind |-> "Real", v |-> value.v]
    ELSE IF decl = "INTEGER" /\ value.kind = "Real"
    THEN [kind |-> "Integer", v |-> value.v]
    ELSE IF decl = "TEXT" /\ value.kind \in {"Integer", "Real"}
    THEN [kind |-> "Text", v |-> Decimal(value.v)]
    ELSE value
RECURSIVE insert_rows(_, _, _, _, _)
\* the `for i in 0..batch.num_rows()` loop of storage::insert_data
insert_rows(db, tbl_name, batch, i, sql) ==
    IF i > Len(batch.rows)
    THEN [ok |-> TRUE, err |-> "", db |-> db, sql |-> sql]
    ELSE IF \E k \in DOMAIN batch.schema : ~is_valid_sqlid(batch.schema[k].name)
    THEN [ok |-> FALSE, err |-> "Invalid field name", db |-> db, sql |-> sql]
    ELSE IF \E k \in DOMAIN batch.schema : batch.schema[k].type \notin InsertableTypes
    THEN [ok |-> FALSE, err |-> "Unsupported column type", db |-> db,
          sql |-> sql]
    ELSE IF \/ ~HasTable(db, tbl_name)
            \/ batch.schema = << >>
            \/ \E k \in DOMAIN batch.schema :
                  \A c \in DOMAIN TableOf(db, tbl_name).cols :
                      TableOf(db, tbl_name).cols[c].name # batch.schema[k].name
    THEN [ok |-> FALSE, err |-> "sqlite: INSERT", db |-> db,
          sql |-> Append(sql, "INSERT INTO")]
    ELSE LET t == TableOf(db, tbl_name)
             row == [c \in DOMAIN t.cols |->
                        IF \E k \in DOMAIN batch.schema :
                              batch.schema[k].name = t.cols[c].name
                        THEN LET k == CHOOSE k \in DOMAIN batch.schema :
                                         batch.schema[k].name = t.cols[c].name
                             IN column_affinity(
                                   t.cols[c].decl,
                                   to_sql(storage_value(batch.schema[k].type,
                                                        batch.rows[i][k])))
                        ELSE SqlNull]
         IN insert_rows([db EXCEPT !.tables[tbl_name].rows = Append(@, row)],
                        tbl_name, batch, i + 1, Append(sql, "INSERT INTO"))

\* storage::insert_data
insert_data(db, subject, target, batch) ==
    IF ~is_valid_sqlid(table_name(subject, target))
    THEN [ok |-> FALSE, err |-> "Invalid table name", db |-> db, sql |-> << >>]
    ELSE insert_rows(db, table_name(subject, target), batch, 1, << >>)

\* the closure of query_map in get_data: row.get(0) as f32, else as String,
\* else as Vec<u8>, else the error
row_get(value) ==
    CASE value.kind \in {"Integer", "Real"} ->
            Ok([kind |-> "Float32", v |-> value.v])
      [] value.kind = "Text" -> Ok([kind |-> "Utf8", v |-> value.v])
      [] value.kind = "Blob" -> Ok([kind |-> "Blob", v |-> value.v])
      [] OTHER -> Err("InvalidColumnType")

RECURSIVE filter_map_ok(_)
\* value_iter.filter_map(|v| v.ok()).collect()
filter_map_ok(results) ==
    IF results = << >> THEN << >>
    ELSE IF Head(results).ok
    THEN << Head(results).val >> \o filter_map_ok(Tail(results))
    ELSE filter_map_ok(Tail(results))

\* the array get_data builds of the collected values: Float32 if any value is
\* one, else Utf8 if any is, else Binary; values of another kind become null
column_array(values) ==
    LET kind == IF \E i \in DOMAIN values : values[i].kind = "Float32"
                THEN "Float32"
                ELSE IF \E i \in DOMAIN values : values[i].kind = "Utf8"
                THEN "Utf8"
                ELSE "Blob"
    IN [type |-> IF kind = "Blob" THEN "Binary" ELSE kind,
        values |-> [i \in DOMAIN values |->
                       IF values[i].kind = kind THEN Some(values[i].v)
                       ELSE NoneV]]
\* storage::get_data: the column as one array, or the error
get_data(db, subject, target, column_name) ==
    LET tbl_name == table_name(subject, target)
        NoArray == [type |-> "Binary", values |-> << >>]
    IN
    IF ~is_valid_sqlid(tbl_name)
    THEN [ok |-> FALSE, err |-> "Invalid table name", array |-> NoArray,
          sql |-> << >>]
    ELSE IF ~is_valid_sqlid(column_name)
    THEN [ok |-> FALSE, err |-> "Invalid column name", array |-> NoArray,
          sql |-> << >>]
    ELSE IF \/ ~HasTable(db, tbl_name)
            \/ \A c \in DOMAIN TableOf(db, tbl_name).cols :
                  TableOf(db, tbl_name).cols[c].name # column_name
    THEN [ok |-> FALSE, err |-> "sqlite: SELECT", array |-> NoArray,
          sql |-> << "SELECT" >>]
    ELSE LET t == TableOf(db, tbl_name)
             c == CHOOSE c \in DOMAIN t.cols : t.cols[c].name = column_name
         IN [ok |-> TRUE, err |-> "",
             array |-> column_array(
                          filter_map_ok([r \in DOMAIN t.rows |->
                                            row_get(t.rows[r][c])])),
             sql |-> << "SELECT" >>]

\* A policy document is the JSON text stored in the policy table: whether it
\* parses as a PolicyFile, the four fields of PolicyFile and the names of its
\* other members.  The key of a rule is a text, written as one token when
\* its characters are not looked at.
\* PolicyFile::from_json (serde_json::from_str): the PolicyFile of a document
\* that parses; members PolicyFile does not declare are ignored
policy_from_json(doc) ==
    [rules |-> doc.rules, func_policy |-> doc.func_policy,
     default_table_verifier |-> doc.default_table_verifier,
     table_verifiers |-> doc.table_verifiers]

\* serde_json::to_string(&policy_file)
policy_to_string(policy_file) ==
    [json_ok |-> TRUE, rules |-> policy_file.rules,
     func_policy |-> policy_file.func_policy,
     default_table_verifier |-> policy_file.default_table_verifier,
     table_verifiers |-> policy_file.table_verifiers, unknown |-> {}]
rewrite_rules_keeps_column(policy_file, column_name) ==
    [policy_file EXCEPT !.rules =
        [k \in DOMAIN @ |-> [@[k] EXCEPT !.column_name = @]]]

\* the `for (_, rule) in policy_file.rules.iter_mut()` loop of get_policy
rewrite_rules(policy_file, column_name) ==
    [policy_file EXCEPT !.rules =
        [k \in DOMAIN @ |-> [@[k] EXCEPT !.column_name = column_name]]]
get_policy_empty_when_missing(db, subject, target, column_name) ==
    LET tbl_name == table_name(subject, target) IN
    IF ~HasPolicy(db, tbl_name)
    THEN [ok |-> TRUE, panic |-> FALSE, err |-> "", json |-> Some(<< >>)]
    ELSE IF ~PolicyOf(db, tbl_name).json_ok
    THEN [ok |-> FALSE, panic |-> TRUE, err |-> "PolicyFile::from_json",
          json |-> NoneV]
    ELSE [ok |-> TRUE, panic |-> FALSE, err |-> "",
          json |-> Some(policy_to_string(
                           rewrite_rules(policy_from_json(PolicyOf(db, tbl_name)),
                                         column_name)))]

\* storage::get_policy: the stored JSON with every rule's column_name
\* rewritten; panic is the unwrap of from_json on a text that does not parse
get_policy(db, subject, target, column_name) ==
    LET tbl_name == table_name(subject, target) IN
    IF ~HasPolicy(db, tbl_name)
    THEN [ok |-> FALSE, panic |-> FALSE, err |-> "No policy found for table",
          json |-> NoneV]
    ELSE IF ~PolicyOf(db, tbl_name).json_ok
    THEN [ok |-> FALSE, panic |-> TRUE, err |-> "PolicyFile::from_json",
          json |-> NoneV]
    ELSE [ok |-> TRUE, panic |-> FALSE, err |-> "",
          json |-> Some(policy_to_string(
                           rewrite_rules(policy_from_json(PolicyOf(db, tbl_name)),
                                         column_name)))]

\* stcall before any call
NoCall == [op |-> "none", args |-> << >>, res |-> << >>]

(***************************************************************************)
(* DoGet and DoPut.                                                        *)
(***************************************************************************)
StrSystem == << "s", "y", "s", "t", "e", "m" >>

\* rpc before any call.  A call leaves its two metadata headers, the status it
\* returned, the subject it resolved and the provider and store operations
\* it performed.
NoRpc == [op |-> "none", xyak |-> NoneV, auth |-> NoneV,
          status |-> Status("ok", ""), subject |-> NoneV, ops |-> << >>,
          body |-> << >>, resp |-> << >>]

\* PolicyFile::new()
PolicyFileNew ==
    [rules |-> [k \in {} |-> 0], func_policy |-> [k \in {} |-> 0],
     default_table_verifier |-> "", table_verifiers |-> [k \in {} |-> 0]]

\* csv::default_policy
csv_default_policy(column_name) == policy_to_string(PolicyFileNew)

\* csv::get_policy; provider is what the policy database answers: whether it
\* opens, and the policy text it stores for the subject
csv_get_policy(provider, subject, column_name) ==
    IF ~provider.policy_ok THEN Err("rusqlite")
    ELSE IF IsSome(provider.stored) THEN Ok(Unwrap(provider.stored))
    ELSE Ok(csv_default_policy(column_name))

RECURSIVE split(_, _)
\* str::split: the parts of a text between occurrences of a separator
split(str, sep) ==
    IF \A i \in DOMAIN str : str[i] # sep THEN << str >>
    ELSE LET i == CHOOSE i \in DOMAIN str :
                     str[i] = sep /\ \A j \in 1..(i - 1) : str[j] # sep
         IN << SubSeq(str, 1, i - 1) >>
            \o split(SubSeq(str, i + 1, Len(str)), sep)

\* the item of a column name item/context/year
edinet_item(column_name) ==
    IF Len(split(column_name, "/")) = 3 THEN split(column_name, "/")[1]
    ELSE column_name

\* edinet::default_policy
edinet_default_policy(column_name) ==
    policy_to_string(
        [PolicyFileNew EXCEPT
            !.rules = [k \in {<< "rule_mean_minimum_100" >>} |->
                         [column_name |-> column_name, rejects |-> << >>,
                          requires |-> << "mean_minimum_100" >>,
                          table_verifier |-> NoneV]],
            !.func_policy = [k \in {"mean_minimum_100"} |->
                               [func |-> "mean", reject |-> "",
                                require |-> "minimum_count 100"]]])

\* edinet::get_policy; by_item is the policy text stored for the item, a
\* policy whose rules are keyed by item
edinet_get_policy(provider, subject, column_name) ==
    IF ~provider.policy_ok THEN Err("rusqlite")
    ELSE IF IsSome(provider.stored) THEN Ok(Unwrap(provider.stored))
    ELSE IF IsSome(provider.by_item)
    THEN IF ~Unwrap(provider.by_item).json_ok
         THEN Err("panic")
         ELSE LET policy == policy_from_json(Unwrap(provider.by_item))
                  item == edinet_item(column_name)
              IN Ok(policy_to_string(
                       [policy EXCEPT !.rules =
                           [k \in DOMAIN @ |->
                               IF k = item
                               THEN [@[k] EXCEPT !.column_name = column_name]
                               ELSE @[k]]]))
    ELSE Ok(edinet_default_policy(column_name))
flight_data_encoder_late_metadata(policy, batches) ==
    IF batches = << >> THEN << >>
    ELSE << [kind |-> "Schema", app_metadata |-> << >>,
             type |-> batches[1].type] >>
         \o [i \in DOMAIN batches |->
                [kind |-> "RecordBatch", app_metadata |-> << policy >>,
                 array |-> batches[i]]]

\* FlightDataEncoderBuilder::new().with_metadata(policy).build(batches): the
\* Schema frame is sent ahead of the first batch and carries the metadata
flight_data_encoder(policy, batches) ==
    IF batches = << >> THEN << >>
    ELSE << [kind |-> "Schema", app_metadata |-> << policy >>,
             type |-> batches[1].type] >>
         \o [i \in DOMAIN batches |->
                [kind |-> "RecordBatch", app_metadata |-> << >>,
                 array |-> batches[i]]]

\* do_get after the authorisation pipeline: ticket parse, provider or store,
\* and the frames of the response stream
do_get_body(opts, db, subject, ticket, provider) ==
    LET R(status, ops) == [status |-> status, ops |-> ops, resp |-> << >>] IN
    IF ~ticket.json_ok
    THEN R(Status("panic", "GetTicket::from_json"), << >>)
    ELSE IF ticket.target = StrSystem
    THEN IF opts.source = "none"
         THEN R(Status("internal", "no data source"), << >>)
         ELSE IF opts.source = "edinet"
                 /\ Len(split(ticket.column_name, "/")) # 3
         THEN R(Status("invalid_argument", "invalid column name"),
                << "fetch" >>)
         ELSE IF ~provider.data_ok
         THEN R(Status("internal", "get_data"), << "fetch" >>)
         ELSE LET res == IF opts.source = "csv"
                         THEN csv_get_policy(provider, subject,
                                             ticket.column_name)
                         ELSE edinet_get_policy(provider, subject,
                                                ticket.column_name)
              IN IF ~res.ok
                 THEN R(IF res.err = "panic"
                        THEN Status("panic", "PolicyFile::from_json")
                        ELSE Status("internal", "failed to get policy"),
                        << "fetch", "get_policy" >>)
                 ELSE [status |-> Status("ok", ""),
                       ops |-> << "fetch", "get_policy" >>,
                       resp |-> flight_data_encoder(res.val, provider.batches)]
    ELSE LET data == get_data(db, subject, ticket.target, ticket.column_name)
             policy == get_policy(db, subject, ticket.target,
                                  ticket.column_name)
         IN IF ~data.ok
            THEN R(Status("internal", "failed to get data"), << "get" >>)
            ELSE IF policy.panic
            THEN R(Status("panic", "PolicyFile::from_json"),
                   << "get", "get_policy" >>)
            ELSE IF ~policy.ok
            THEN R(Status("internal", "failed to get policy"),
                   << "get", "get_policy" >>)
            ELSE [status |-> Status("ok", ""),
                  ops |-> << "get", "get_policy" >>,
                  resp |-> flight_data_encoder(Unwrap(policy.json),
                                               << data.array >>)]

RECURSIVE do_put_frames(_, _, _, _, _, _, _)
\* the `while let Some(data) = stream.next().await` loop of do_put and the
\* PutResult that follows it
do_put_frames(frames, subject, now, target, policy, db, ops) ==
    LET R(status, d, o) ==
            [status |-> status, db |-> d, ops |-> o, resp |-> << >>]
    IN
    IF frames = << >>
    THEN IF IsNone(target)
         THEN R(Status("panic", "target not created yet"), db, ops)
         ELSE [status |-> Status("ok", ""), db |-> db, ops |-> ops,
               resp |-> << [kind |-> "PutResult",
                            app_metadata |-> Unwrap(target)] >>]
    ELSE LET f == Head(frames)
             policy1 == IF f.app_metadata # << >>
                        THEN Some(f.app_metadata[1]) ELSE policy
         IN
         IF ~f.ok
         THEN do_put_frames(Tail(frames), subject, now, target, policy, db, ops)
         ELSE IF f.kind = "None"
         THEN do_put_frames(Tail(frames), subject, now, target, policy1, db, ops)
         ELSE IF f.kind = "Schema"
         THEN LET r == create_storage(db, subject, f.schema, policy1, now) IN
              IF ~r.ok
              THEN R(Status("internal", "Failed to create table"), r.db,
                     Append(ops, "create"))
              ELSE do_put_frames(Tail(frames), subject, now, Some(r.target),
                                 NoneV, r.db, Append(ops, "create"))
         ELSE IF IsNone(target)
         THEN R(Status("panic", "target not created yet"), db, ops)
         ELSE LET r == insert_data(db, subject, Unwrap(target), f) IN
              IF ~r.ok
              THEN R(Status("internal", "Failed to update table"), r.db,
                     Append(ops, "insert"))
              ELSE do_put_frames(Tail(frames), subject, now, target, policy1,
                                 r.db, Append(ops, "insert"))

\* FlightServiceImpl::do_get for one request: its two metadata headers, its
\* ticket and what the dataset provider answers
DoGet(req) ==
    LET a == authorize(valid_tokens, cmd_opts, req.xyak, req.auth) IN
    /\ IF ~a.ok
       THEN rpc' = [op |-> "do_get", xyak |-> req.xyak, auth |-> req.auth,
                    status |-> a.status, subject |-> a.subject, ops |-> << >>,
                    body |-> [ticket |-> req.ticket, provider |-> req.provider],
                    resp |-> << >>]
       ELSE LET b == do_get_body(cmd_opts, storage_db, Unwrap(a.subject),
                                 req.ticket, req.provider)
            IN rpc' = [op |-> "do_get", xyak |-> req.xyak, auth |-> req.auth,
                       status |-> b.status, subject |-> a.subject,
                       ops |-> b.ops,
                       body |-> [ticket |-> req.ticket,
                                 provider |-> req.provider],
                       resp |-> b.resp]
    /\ UNCHANGED << configVars, valid_tokens, hs, storage_db, stcall, clientVars,
                    codecVars >>

\* FlightServiceImpl::do_put for one request: its two metadata headers, the
\* decoded frames of its stream and the clock reading
DoPut(req) ==
    LET a == authorize(valid_tokens, cmd_opts, req.xyak, req.auth) IN
    /\ IF ~a.ok
       THEN /\ rpc' = [op |-> "do_put", xyak |-> req.xyak, auth |-> req.auth,
                       status |-> a.status, subject |-> a.subject,
                       ops |-> << >>, body |-> [frames |-> req.frames],
                       resp |-> << >>]
            /\ UNCHANGED storage_db
       ELSE LET b == do_put_frames(req.frames, Unwrap(a.subject), req.now,
                                   NoneV, NoneV,
                                   storage_db, << >>)
            IN /\ rpc' = [op |-> "do_put", xyak |-> req.xyak,
                          auth |-> req.auth, status |-> b.status,
                          subject |-> a.subject, ops |-> b.ops,
                          body |-> [frames |-> req.frames], resp |-> b.resp]
               /\ storage_db' = b.db
    /\ UNCHANGED << configVars, valid_tokens, hs, stcall, clientVars, codecVars >>

(***************************************************************************)
(* The host-side client facade (HostFlightClient): one client resource,    *)
(* the one-shot completion channel of its background task, and the data    *)
(* queue of a DoPut.                                                       *)
(***************************************************************************)
\* mpsc::channel::<FlightData>(100)
DataQueueCapacity == 100

\* Result<_, RecvError> read from the one-shot channel
RecvOk(v) == [recv_ok |-> TRUE, val |-> v]
RecvErr == [recv_ok |-> FALSE, val |-> [ok |-> FALSE, token |-> << >>]]

\* a FlightClientState: the *Ready variants carry the received result
St(tag) == [tag |-> tag, res |-> NoneV]
ReadySt(tag, r) == [tag |-> tag, res |-> Some(r)]

NoChan == [st |-> "none", val |-> [ok |-> FALSE, token |-> << >>]]
PendingChan == [st |-> "pending", val |-> [ok |-> FALSE, token |-> << >>]]
NoQueue == [items |-> << >>, tx_open |-> FALSE, rx_open |-> FALSE]
\* no request body is being decoded
NoStream == [msgs |-> << >>, body |-> << >>, buffer |-> NoneV, out |-> << >>,
             st |-> "none"]
\* the record of a DoPut that is not kept
NoTrace == [tracing |-> FALSE, accepted |-> << >>, yielded |-> << >>]
\* no task is building or running a DoGet/DoPut request
NoRequest == [op |-> "none", built |-> FALSE, auth |-> NoneV, xyak |-> NoneV]

\* no response resource in the table
NoIncoming ==
    [open |-> FALSE, kind |-> "none", stream |-> << >>, ended |-> FALSE,
     pending_data |-> NoneV, last |-> "none",
     ret |-> [code |-> "none", val |-> NoneV], sent |-> << >>, got |-> << >>]

\* `HostFlightIncomingResponse { stream, pending_data: None }` and the same of
\* HostFlightIncomingPutResponse: stream holds what has arrived and was not
\* polled yet, ended says that the end of the stream has arrived; last and ret
\* are the latest call on the resource and what get returned; sent and got
\* record the messages of the server and the ones get handed out
new_incoming(kind) == [NoIncoming EXCEPT !.open = TRUE, !.kind = kind]
\* no FunctionPolicyDef
NoPredicate ==
    [num |-> << >>, called |-> FALSE, value |-> 0, result |-> "none"]
\* no request at the bridge
NoBridge ==
    [route |-> "none", st |-> "none", policy |-> NoneV, body |-> << >>,
     read |-> << >>, frame |-> NoneV, fut |-> FALSE, has_schema |-> FALSE,
     seen |-> << >>, response |-> NoneV, written |-> << >>]

ClientInit ==
    /\ client = [state |-> St("Default"), token |-> NoneV]
    /\ oneshot = NoChan
    /\ task = "none"
    /\ dataq = NoQueue
    /\ call = [op |-> "none", ret |-> "Ok"]
    /\ request = NoRequest
    /\ flight_descriptor = NoneV
    /\ incoming = NoIncoming

\* no predicate is evaluated and no HTTP request is handled
GuestInit ==
    /\ fpd = NoPredicate
    /\ bridge = NoBridge

poll_unpin_never_pending(ch) ==
    Some(IF ch.st = "sent" THEN RecvOk(ch.val) ELSE RecvErr)

\* rx.poll_unpin(&mut cx): none is Poll::Pending
poll_unpin(ch) ==
    IF ch.st = "pending"
    THEN NoneV
    ELSE Some(IF ch.st = "sent" THEN RecvOk(ch.val) ELSE RecvErr)

previous_state_result_no_restore(previous_state, ch, progress, ready) ==
    IF previous_state.tag = ready
    THEN [kind |-> "res", res |-> Unwrap(previous_state.res),
          state |-> St("Closed")]
    ELSE IF previous_state.tag = progress
    THEN IF IsSome(poll_unpin(ch))
         THEN [kind |-> "res", res |-> Unwrap(poll_unpin(ch)),
               state |-> St("Closed")]
         ELSE [kind |-> "WouldBlock", res |-> RecvErr, state |-> previous_state]
    ELSE [kind |-> "NotInProgress", res |-> RecvErr, state |-> St("Closed")]

\* `let previous_state = std::mem::replace(&mut client.state, Closed);
\*  let res = match previous_state {..}` of finish_connect, and the same match
\* of finish_handshake, finish_do_get and finish_do_put: the result taken, or
\* the early return with the state it leaves
previous_state_result(previous_state, ch, progress, ready) ==
    IF previous_state.tag = ready
    THEN [kind |-> "res", res |-> Unwrap(previous_state.res),
          state |-> St("Closed")]
    ELSE IF previous_state.tag = progress
    THEN IF IsSome(poll_unpin(ch))
         THEN [kind |-> "res", res |-> Unwrap(poll_unpin(ch)),
               state |-> St("Closed")]
         ELSE [kind |-> "WouldBlock", res |-> RecvErr, state |-> previous_state]
    ELSE [kind |-> "NotInProgress", res |-> RecvErr, state |-> previous_state]
oneshot_after_keeps_value(previous_state, ch, progress) == ch

\* the one-shot channel after a finish_* call: a polled result is taken out
oneshot_after(previous_state, ch, progress) ==
    IF previous_state.tag = progress /\ IsSome(poll_unpin(ch)) THEN NoChan ELSE ch
finish_connect_match_retry(res) ==
    IF res.recv_ok
    THEN IF res.val.ok
         THEN [state |-> St("Connected"), ret |-> "Ok"]
         ELSE [state |-> St("Default"), ret |-> "ConnectionRefused"]
    ELSE [state |-> St("Closed"), ret |-> "InternalError"]

\* `match res {..}` of finish_connect
finish_connect_match(res) ==
    IF res.recv_ok
    THEN IF res.val.ok
         THEN [state |-> St("Connected"), ret |-> "Ok"]
         ELSE [state |-> St("Closed"), ret |-> "ConnectionRefused"]
    ELSE [state |-> St("Closed"), ret |-> "InternalError"]
finish_rpc_match_closes(res) ==
    IF res.recv_ok
    THEN IF res.val.ok
         THEN [state |-> St("Closed"), ret |-> "Ok"]
         ELSE [state |-> St("Connected"), ret |-> "InternalError"]
    ELSE [state |-> St("Closed"), ret |-> "InternalError"]

\* `match res {..}` of finish_handshake, finish_do_get and finish_do_put
finish_rpc_match(res) ==
    IF res.recv_ok
    THEN IF res.val.ok
         THEN [state |-> St("Connected"), ret |-> "Ok"]
         ELSE [state |-> St("Connected"), ret |-> "InternalError"]
    ELSE [state |-> St("Closed"), ret |-> "InternalError"]

start_connect_allowed_or_closed(state) == state.tag \in {"Default", "Closed"}

\* match &client.state { Default => {} _ => return Err(AlreadyConnected) }
start_connect_allowed(state) == state.tag = "Default"
start_rpc_check_no_in_progress(state, progress) ==
    IF state.tag = "Connected" THEN "Ok" ELSE "InvalidState"

\* the state check of start_handshake, start_do_get and start_do_put
start_rpc_check(state, progress) ==
    IF state.tag = "Connected" THEN "Ok"
    ELSE IF state.tag \in progress THEN "InProgress"
    ELSE "InvalidState"

\* String::from_utf8_lossy(&res.payload).to_string()
from_utf8_lossy(payload) ==
    [i \in DOMAIN payload |->
        IF payload[i] = NonAsciiByte THEN "U+FFFD" ELSE payload[i]]

Called(op, ret) == call' = [op |-> op, ret |-> ret]

\* a control character, which no header value may contain
CtlChar == "0x0A"

\* MetadataValue::from_str: Ok for visible ASCII only
metadata_value_from_str(s) ==
    IF \E i \in DOMAIN s : s[i] \in {NonAsciiByte, "U+FFFD", CtlChar}
    THEN Err("invalid jwt")
    ELSE Ok(s)

build_request_token_as_jwt(op, jwt, token) ==
    LET a == IF IsSome(jwt)
             THEN metadata_value_from_str(StrBearerSp \o Unwrap(jwt))
             ELSE Ok(<< >>)
        x == IF IsSome(token)
             THEN metadata_value_from_str(StrBearerSp \o Unwrap(token))
             ELSE Ok(<< >>)
    IN IF a.ok /\ x.ok
       THEN [op |-> op, built |-> TRUE,
             auth |-> IF IsSome(token) THEN Some(x.val) ELSE NoneV,
             xyak |-> NoneV]
       ELSE [op |-> op, built |-> FALSE, auth |-> NoneV, xyak |-> NoneV]

\* `let request = if let Some(jwt) = &jwt {..} else {..}.and_then(|mut req|
\*  if let Some(token) = token {..} else { Ok(req) })` of the DoGet and DoPut
\* tasks: the metadata of the request, or built = FALSE when a header value
\* is refused and no RPC is issued
build_request(op, jwt, token) ==
    LET a == IF IsSome(jwt)
             THEN metadata_value_from_str(StrBearerSp \o Unwrap(jwt))
             ELSE Ok(<< >>)
        x == IF IsSome(token)
             THEN metadata_value_from_str(StrBearerSp \o Unwrap(token))
             ELSE Ok(<< >>)
    IN IF a.ok /\ x.ok
       THEN [op |-> op, built |-> TRUE,
             auth |-> IF IsSome(jwt) THEN Some(a.val) ELSE NoneV,
             xyak |-> IF IsSome(token) THEN Some(x.val) ELSE NoneV]
       ELSE [op |-> op, built |-> FALSE, auth |-> NoneV, xyak |-> NoneV]

\* HostClient::start_connect
start_connect ==
    IF ~start_connect_allowed(client.state)
    THEN /\ Called("start_connect", "AlreadyConnected")
         /\ UNCHANGED << client, oneshot, task, dataq, otherVars, request,
                         putVars >>
    ELSE /\ client' = [client EXCEPT !.state = St("Connecting")]
         /\ oneshot' = PendingChan
         /\ task' = "connect"
         /\ Called("start_connect", "Ok")
         /\ UNCHANGED << dataq, otherVars, request, putVars >>

\* HostClient::finish_connect
finish_connect ==
    LET p == previous_state_result(client.state, oneshot,
                                   "Connecting", "ConnectReady")
        m == finish_connect_match(p.res)
    IN
    /\ IF p.kind # "res"
       THEN /\ client' = [client EXCEPT !.state = p.state]
            /\ Called("finish_connect", p.kind)
            /\ UNCHANGED oneshot
       ELSE /\ client' = [client EXCEPT !.state = m.state]
            /\ oneshot' = oneshot_after(client.state, oneshot, "Connecting")
            /\ Called("finish_connect", m.ret)
    /\ UNCHANGED << task, dataq, otherVars, request, putVars >>

\* HostClient::start_handshake
start_handshake ==
    LET chk == start_rpc_check(client.state, {"HandshakeProgress"}) IN
    IF chk # "Ok"
    THEN /\ Called("start_handshake", chk)
         /\ UNCHANGED << client, oneshot, task, dataq, otherVars, request,
                         putVars >>
    ELSE /\ client' = [client EXCEPT !.state = St("HandshakeProgress")]
         /\ oneshot' = PendingChan
         /\ task' = "handshake"
         /\ Called("start_handshake", "Ok")
         /\ UNCHANGED << dataq, otherVars, request, putVars >>

\* HostClient::finish_handshake
finish_handshake ==
    LET p == previous_state_result(client.state, oneshot,
                                   "HandshakeProgress", "HandshakeReady")
        m == finish_rpc_match(p.res)
    IN
    /\ IF p.kind # "res"
       THEN /\ client' = [client EXCEPT !.state = p.state]
            /\ Called("finish_handshake", p.kind)
            /\ UNCHANGED oneshot
       ELSE /\ client' = [state |-> m.state,
                          token |-> IF m.ret = "Ok"
                                    THEN Some(p.res.val.token)
                                    ELSE client.token]
            /\ oneshot' = oneshot_after(client.state, oneshot,
                                        "HandshakeProgress")
            /\ Called("finish_handshake", m.ret)
    /\ UNCHANGED << task, dataq, otherVars, request, putVars >>

\* HostClient::start_do_get
start_do_get ==
    LET chk == start_rpc_check(client.state, {"DoGetProgress"}) IN
    IF chk # "Ok"
    THEN /\ Called("start_do_get", chk)
         /\ UNCHANGED << client, oneshot, task, dataq, otherVars, request,
                         putVars >>
    ELSE /\ client' = [client EXCEPT !.state = St("DoGetProgress")]
         /\ oneshot' = PendingChan
         /\ task' = "do_get"
         /\ request' = build_request("do_get", ctx.jwt, client.token)
         /\ Called("start_do_get", "Ok")
         /\ UNCHANGED << dataq, otherVars, putVars >>

\* HostClient::finish_do_get
finish_do_get ==
    LET p == previous_state_result(client.state, oneshot,
                                   "DoGetProgress", "DoGetReady")
        m == finish_rpc_match(p.res)
    IN
    /\ IF p.kind # "res"
       THEN /\ client' = [client EXCEPT !.state = p.state]
            /\ Called("finish_do_get", p.kind)
            /\ UNCHANGED << oneshot, incoming >>
       ELSE /\ client' = [client EXCEPT !.state = m.state]
            /\ oneshot' = oneshot_after(client.state, oneshot, "DoGetProgress")
            /\ Called("finish_do_get", m.ret)
            /\ incoming' = IF m.ret = "Ok" THEN new_incoming("get")
                           ELSE incoming
    /\ UNCHANGED << task, dataq, outsideVars, request, putVars >>

\* FlightDescriptor::new_path
new_path(path) == [type |-> "PATH", path |-> path]

\* FlightData::with_descriptor
with_descriptor(flight_data, desc) ==
    [flight_data EXCEPT !.flight_descriptor = Some(desc)]

stream_yield_always_described(desc, flight_data) ==
    with_descriptor(flight_data, new_path(<< "save" >>))

\* `yield match flight_descriptor.take() { Some(desc) =>
\*  flight_data.with_descriptor(desc), None => flight_data }`
stream_yield(desc, flight_data) ==
    IF IsSome(desc) THEN with_descriptor(flight_data, Unwrap(desc))
    ELSE flight_data

\* HostClient::start_do_put
start_do_put ==
    LET chk == start_rpc_check(client.state,
                               {"DoPutSendProgress", "DoPutRecvProgress"})
    IN
    IF chk # "Ok"
    THEN /\ Called("start_do_put", chk)
         /\ UNCHANGED << client, oneshot, task, dataq, otherVars, request,
                         putVars >>
    ELSE /\ client' = [client EXCEPT !.state = St("DoPutSendProgress")]
         /\ oneshot' = PendingChan
         /\ task' = "do_put"
         /\ dataq' = [items |-> << >>, tx_open |-> TRUE, rx_open |-> TRUE]
         /\ request' = build_request("do_put", ctx.jwt, client.token)
         /\ flight_descriptor' = Some(new_path(<< "save" >>))
         /\ put_trace' = [put_trace EXCEPT !.accepted = << >>, !.yielded = << >>]
         /\ Called("start_do_put", "Ok")
         /\ UNCHANGED otherVars

\* data_tx.try_send(flight_data)
try_send(q) ==
    IF ~q.rx_open THEN "InternalError"
    ELSE IF Len(q.items) >= DataQueueCapacity THEN "WouldBlock"
    ELSE "Ok"

\* the guest's flight-data record: data-header, app-metadata, data-body
GuestData(h, m, b) == [data_header |-> h, app_metadata |-> m, data_body |-> b]

\* FlightData::new().with_data_header(..).with_app_metadata(..)
\*     .with_data_body(..)
to_flight_data(data) ==
    [flight_descriptor |-> NoneV,
     data_header |-> data.data_header,
     app_metadata |-> data.app_metadata,
     data_body |-> data.data_body]

do_put_check_allows_empty(state, data, fin) ==
    IF state.tag # "DoPutSendProgress" THEN "InvalidState" ELSE "Ok"

\* the state match and the parameter check at the head of do_put
do_put_check(state, data, fin) ==
    IF state.tag # "DoPutSendProgress" THEN "InvalidState"
    ELSE IF IsNone(data) /\ ~fin THEN "InvalidParameter"
    ELSE "Ok"

do_put_next_keeps_sending(fin) == St("DoPutSendProgress")

\* `if fin { drop(data_tx); DoPutRecvProgress(rx) } else
\*  { DoPutSendProgress(data_tx, rx) }`
do_put_next(fin) ==
    IF fin THEN St("DoPutRecvProgress") ELSE St("DoPutSendProgress")

\* HostClient::do_put
do_put(data, fin) ==
    LET chk == do_put_check(client.state, data, fin) IN
    IF chk # "Ok"
    THEN /\ Called("do_put", chk)
         /\ UNCHANGED << client, oneshot, task, dataq, otherVars, request,
                         putVars >>
    ELSE IF IsSome(data) /\ try_send(dataq) # "Ok"
    THEN \* `res?` returns with the state left Closed; data_tx and rx drop
         /\ client' = [client EXCEPT !.state = St("Closed")]
         /\ oneshot' = IF oneshot.st = "pending"
                       THEN [oneshot EXCEPT !.st = "rx_dropped"] ELSE NoChan
         /\ dataq' = [dataq EXCEPT !.tx_open = FALSE]
         /\ Called("do_put", try_send(dataq))
         /\ UNCHANGED << task, otherVars, request, putVars >>
    ELSE /\ client' = [client EXCEPT !.state = do_put_next(fin)]
         /\ dataq' = [dataq EXCEPT
                         !.items = IF IsSome(data)
                                   THEN Append(@, to_flight_data(Unwrap(data)))
                                   ELSE @,
                         !.tx_open = do_put_next(fin).tag = "DoPutSendProgress"]
         /\ put_trace' = IF put_trace.tracing /\ IsSome(data)
                         THEN [put_trace EXCEPT
                                  !.accepted = Append(@, Unwrap(data))]
                         ELSE put_trace
         /\ Called("do_put", "Ok")
         /\ UNCHANGED << oneshot, task, otherVars, request,
                         flight_descriptor >>

\* HostClient::finish_do_put
finish_do_put ==
    LET p == previous_state_result(client.state, oneshot,
                                   "DoPutRecvProgress", "DoPutReady")
        m == finish_rpc_match(p.res)
    IN
    /\ IF p.kind # "res"
       THEN /\ client' = [client EXCEPT !.state = p.state]
            /\ Called("finish_do_put", p.kind)
            /\ UNCHANGED << oneshot, incoming >>
       ELSE /\ client' = [client EXCEPT !.state = m.state]
            /\ oneshot' = oneshot_after(client.state, oneshot,
                                        "DoPutRecvProgress")
            /\ Called("finish_do_put", m.ret)
            /\ incoming' = IF m.ret = "Ok" THEN new_incoming("put")
                           ELSE incoming
    /\ UNCHANGED << task, dataq, outsideVars, request, putVars >>
ready_variant_as_connect(tag) == "ConnectReady"

\* the *Ready variant that Pollable::ready turns a *Progress variant into
ready_variant(tag) ==
    IF tag = "Connecting" THEN "ConnectReady"
    ELSE IF tag = "HandshakeProgress" THEN "HandshakeReady"
    ELSE IF tag = "DoGetProgress" THEN "DoGetReady"
    ELSE "DoPutReady"

\* <HostFlightClient as Pollable>::ready, at the point where rx.await resolves
ready ==
    /\ client.state.tag \in {"Connecting", "HandshakeProgress",
                             "DoGetProgress", "DoPutRecvProgress"}
    /\ IsSome(poll_unpin(oneshot))
    /\ client' = [client EXCEPT !.state =
                     ReadySt(ready_variant(client.state.tag),
                             Unwrap(poll_unpin(oneshot)))]
    /\ oneshot' = NoChan
    /\ UNCHANGED << task, dataq, call, otherVars, request, putVars >>

\* the frames the guest passes to do_put, as bytes of header, metadata, body
ClientFrame == GuestData(<< 1 >>, << 2 >>, << 3 >>)
\* the `data` arguments of do_put
PutData == {NoneV, Some(ClientFrame)}

\* payloads the server's second handshake response can carry
ClientPayloads == {HexEncode(Bytes(TokenLen, 10)), << "a", NonAsciiByte >>}

\* What the spawned task ends with: the value it sends on the one-shot channel,
\* or "drop" when it ends without sending (it panicked or was cancelled).
TaskOutcomes(t) ==
    {[kind |-> "drop", val |-> [ok |-> FALSE, token |-> << >>]],
     [kind |-> "send", val |-> [ok |-> FALSE, token |-> << >>]]}
    \cup IF t \in {"do_get", "do_put"} /\ ~request.built
         THEN \* `Err(err) => tx.send((flight_client, Err(err)))`: no RPC
              { }
         ELSE IF t = "handshake"
         THEN {[kind |-> "send",
                val |-> [ok |-> TRUE, token |-> from_utf8_lossy(p)]] :
                  p \in ClientPayloads}
         ELSE IF t = "do_put"
                 /\ ~(dataq.rx_open /\ ~dataq.tx_open /\ dataq.items = << >>)
         THEN \* the service answers a DoPut only after the end of the
              \* request stream
              { }
         ELSE {[kind |-> "send", val |-> [ok |-> TRUE, token |-> << >>]]}

\* the task spawned by start_* ends: `let _ = tx.send(..)`; the request of a
\* DoPut, and with it the request stream and data_rx, is gone by then
TaskComplete(out) ==
    /\ task # "none"
    /\ task' = "none"
    /\ oneshot' = IF oneshot.st = "pending"
                  THEN IF out.kind = "send"
                       THEN [st |-> "sent", val |-> out.val]
                       ELSE [oneshot EXCEPT !.st = "tx_dropped"]
                  ELSE NoChan
    /\ request' = NoRequest
    /\ dataq' = IF task = "do_put"
                THEN [dataq EXCEPT !.rx_open = FALSE, !.items = << >>]
                ELSE dataq
    /\ flight_descriptor' = IF task = "do_put" THEN NoneV ELSE flight_descriptor
    /\ UNCHANGED << client, call, otherVars, put_trace >>

\* `while let Some(flight_data) = stream.next().await` of the DoPut task
TaskRecvFrame ==
    /\ dataq.rx_open /\ dataq.items # << >>
    /\ dataq' = [dataq EXCEPT !.items = Tail(@)]
    /\ flight_descriptor' = NoneV
    /\ put_trace' = IF put_trace.tracing
                    THEN [put_trace EXCEPT
                             !.yielded = Append(@, stream_yield(flight_descriptor,
                                                                Head(dataq.items)))]
                    ELSE put_trace
    /\ UNCHANGED << client, oneshot, task, call, otherVars, request >>

\* the request stream of the DoPut call, which owns data_rx, is dropped
DataRxDrop ==
    /\ dataq.rx_open
    /\ dataq' = [dataq EXCEPT !.rx_open = FALSE, !.items = << >>]
    /\ flight_descriptor' = NoneV
    /\ UNCHANGED << client, oneshot, task, call, otherVars, request,
                    put_trace >>

(***************************************************************************)
(* Inputs of the service model.                                            *)
(***************************************************************************)
SubAlice == << "o", "|", "a" >>
SubBob == << "o", "|", "b" >>
StrAlice == << "o", "_", "a" >>

JwtAlice == << "K", "V" >> \o SubAlice
JwtBob == << "K", "V" >> \o SubBob
\* a JWT whose signature does not verify, one naming an unknown key id, one
\* naming no key id, and one whose header does not decode
Jwts ==
    {JwtAlice, JwtBob, << "K", "X" >> \o SubAlice, << "U", "V" >> \o SubAlice,
     << "N", "V" >> \o SubAlice, << "?" >>}

\* header values that are not "Bearer <text>": too short, another scheme,
\* a byte that is not visible ASCII
MalformedHeaders ==
    {<< "B", "e", "a", "r", "e", "r" >>,
     << "B", "a", "s", "i", "c", " ", "K", "V", "o", "|", "a" >>,
     StrBearerSp \o << NonAsciiByte >>}

\* a token the server never issues
BogusToken == << "f", "f" >>

XYakHeaders ==
    {NoneV} \cup {Some(v) : v \in MalformedHeaders}
    \cup {Some(StrBearerSp \o HexEncode(t)) : t \in TokenBytes}
    \cup {Some(StrBearerSp \o BogusToken), Some(StrBearerSp)}

AuthHeaders ==
    {NoneV} \cup {Some(v) : v \in MalformedHeaders}
    \cup {Some(StrBearerSp \o j) : j \in Jwts}

ColX == << "x" >>
Target1 == << "1" >>
BadTicket == [json_ok |-> FALSE, target |-> << >>, column_name |-> << >>]
SystemTicket == [json_ok |-> TRUE, target |-> StrSystem, column_name |-> ColX]
StoredTicket == [json_ok |-> TRUE, target |-> Target1, column_name |-> ColX]

\* what the dataset provider answers: whether the data and the policy database
\* can be read, the policy texts stored for the subject and for the item, and
\* the record batches of the column
ColumnX == [type |-> "Float32", values |-> << Some(15) >>]
ProviderOk ==
    [data_ok |-> TRUE, policy_ok |-> TRUE, stored |-> NoneV, by_item |-> NoneV,
     batches |-> << ColumnX >>]
\* ticket and provider answer of a DoGet
GetBodies ==
    {[ticket |-> BadTicket, provider |-> ProviderOk],
     [ticket |-> StoredTicket, provider |-> ProviderOk],
     [ticket |-> SystemTicket, provider |-> ProviderOk],
     [ticket |-> SystemTicket,
      provider |-> [ProviderOk EXCEPT !.data_ok = FALSE]],
     [ticket |-> SystemTicket,
      provider |-> [ProviderOk EXCEPT !.policy_ok = FALSE]]}

SchemaX == << [name |-> ColX, type |-> "Float32"] >>
NoMap == [k \in {} |-> 0]
\* a policy document: one rule, written for another column
PolicyX ==
    [json_ok |-> TRUE,
     rules |-> [k \in {<< "r1" >>} |->
                  [column_name |-> << "y" >>,
                   requires |-> << "mean_minimum_100" >>, rejects |-> << >>,
                   table_verifier |-> NoneV]],
     func_policy |-> [k \in {"f1"} |->
                        [func |-> "mean", reject |-> "", require |-> "r1"]],
     default_table_verifier |-> "",
     table_verifiers |-> NoMap,
     unknown |-> {}]
SchemaFrame ==
    [ok |-> TRUE, app_metadata |-> << PolicyX >>, kind |-> "Schema",
     schema |-> SchemaX, rows |-> << >>]
BatchFrame ==
    [ok |-> TRUE, app_metadata |-> << >>, kind |-> "RecordBatch",
     schema |-> SchemaX, rows |-> << << [valid |-> TRUE, v |-> 15] >> >>]
\* frames and clock reading (seconds since the epoch) of a DoPut
PutBodies ==
    {[frames |-> << >>, now |-> 1],
     [frames |-> << SchemaFrame, BatchFrame >>, now |-> 1]}

\* The requests of the service model: every x-yak-authorization value in
\* front of a verifiable JWT, and behind the first session token every
\* authorization value and every body with no JWT or a verifiable one.
FirstToken == Some(StrBearerSp \o HexEncode(Bytes(TokenLen, 10)))
HeaderPairs ==
    {[xyak |-> x, auth |-> Some(StrBearerSp \o JwtAlice)] : x \in XYakHeaders}
    \cup {[xyak |-> FirstToken, auth |-> a] : a \in AuthHeaders}
PlainHeaderPairs ==
    {[xyak |-> FirstToken, auth |-> a] :
        a \in {NoneV, Some(StrBearerSp \o JwtAlice), Some(StrBearerSp \o JwtBob)}}

GetRequests ==
    {[xyak |-> h.xyak, auth |-> h.auth, ticket |-> StoredTicket,
      provider |-> ProviderOk] : h \in HeaderPairs}
    \cup {[xyak |-> h.xyak, auth |-> h.auth, ticket |-> b.ticket,
           provider |-> b.provider] : h \in PlainHeaderPairs, b \in GetBodies}
PutRequests ==
    {[xyak |-> h.xyak, auth |-> h.auth, frames |-> << SchemaFrame, BatchFrame >>,
      now |-> 1] : h \in HeaderPairs}
    \cup {[xyak |-> h.xyak, auth |-> h.auth, frames |-> b.frames, now |-> b.now] :
            h \in PlainHeaderPairs, b \in PutBodies}

\* the round-2 payloads of the service model: a report that passes under the
\* test challenge, one with a wrong nonce, one the verifier rejects
ServiceReports ==
    {[verifier |-> "accept", report_data |-> TEST_REQ_DATA,
      measurement |-> MeasurementA],
     [verifier |-> "accept", report_data |-> ZeroChallenge,
      measurement |-> MeasurementA],
     [verifier |-> "reject", report_data |-> TEST_REQ_DATA,
      measurement |-> MeasurementA]}

ServerInit ==
    /\ cmd_opts \in [use_test_challenge : BOOLEAN, authorized_subject : {NoneV},
                     source : {"csv"}]
    /\ server_ld \in {NoneV, Some(MeasurementA)}
    /\ valid_tokens = << >>
    /\ hs = [s \in Streams |-> IdleStream]
    /\ rpc = NoRpc
    /\ storage_db = EmptyDb
    /\ stcall = NoCall
    /\ ctx = [jwt |-> NoneV]
    /\ put_trace = NoTrace
    /\ fds = NoStream
    /\ ClientInit
    /\ GuestInit

(***************************************************************************)
(* The handshake service alone: NStreams concurrent handshake streams.     *)
(***************************************************************************)
InitHandshake == ServerInit

NextHandshake ==
    \/ \E s \in Streams : HandshakeOpen(s)
    \/ \E s \in Streams, nonce \in Nonces : HandshakeRound1(s, nonce)
    \/ \E s \in Streams, req \in Reports, token \in TokenBytes :
          HandshakeRound2(s, req, token)
    \/ \E s \in Streams : HandshakeTooMany(s)
    \/ \E s \in Streams : HandshakeInboundError(s)
    \/ \E s \in Streams : HandshakeEnd(s)

SpecHandshake == InitHandshake /\ [][NextHandshake]_vars

(***************************************************************************)
(* The whole Flight service: handshakes, DoGet and DoPut, launched with    *)
(* the test challenge and no expected launch digest.                       *)
(***************************************************************************)
InitService ==
    /\ cmd_opts \in [use_test_challenge : {TRUE},
                     authorized_subject : {NoneV, Some(StrAlice)},
                     source : {"csv"}]
    /\ server_ld = NoneV
    /\ valid_tokens = << >>
    /\ hs = [s \in Streams |-> IdleStream]
    /\ rpc = NoRpc
    /\ storage_db = EmptyDb
    /\ stcall = NoCall
    /\ ctx = [jwt |-> NoneV]
    /\ put_trace = NoTrace
    /\ fds = NoStream
    /\ ClientInit
    /\ GuestInit

NextService ==
    \/ HandshakeOpen(1)
    \/ \E nonce \in Nonces : HandshakeRound1(1, nonce)
    \/ \E req \in ServiceReports, token \in TokenBytes :
          HandshakeRound2(1, req, token)
    \/ HandshakeTooMany(1)
    \/ \E req \in GetRequests : DoGet(req)
    \/ \E req \in PutRequests : DoPut(req)

SpecService == InitService /\ [][NextService]_vars

(***************************************************************************)
(* The client facade alone: one client resource driven by its guest, its   *)
(* background tasks ending in every way they can.                          *)
(***************************************************************************)
InitClient ==
    /\ cmd_opts = [use_test_challenge |-> TRUE, authorized_subject |-> NoneV,
                   source |-> "csv"]
    /\ server_ld = NoneV
    /\ valid_tokens = << >>
    /\ hs = [s \in Streams |-> IdleStream]
    /\ rpc = NoRpc
    /\ storage_db = EmptyDb
    /\ stcall = NoCall
    /\ ctx = [jwt |-> NoneV]
    /\ put_trace = NoTrace
    /\ fds = NoStream
    /\ ClientInit
    /\ GuestInit

NextClient ==
    \/ start_connect
    \/ finish_connect
    \/ start_handshake
    \/ finish_handshake
    \/ start_do_get
    \/ finish_do_get
    \/ start_do_put
    \/ \E data \in PutData, fin \in BOOLEAN : do_put(data, fin)
    \/ finish_do_put
    \/ ready
    \/ \E out \in TaskOutcomes(task) : TaskComplete(out)
    \/ TaskRecvFrame
    \/ DataRxDrop

SpecClient == InitClient /\ [][NextClient]_vars

\* The guest awaits the client's pollable: the receiver of the one-shot
\* channel registers the waker of ready(), so a ready() that can resolve is
\* resumed by the runtime.
SpecClientFair == SpecClient /\ WF_vars(ready)

(***************************************************************************)
(* The client facade with a configured JWT: the guest sends no frames, so  *)
(* that the requests the tasks build are all that varies.                  *)
(***************************************************************************)
\* FlightCtx.jwt: none, a JWT, or a text that is no legal header value
ClientJwts == {NoneV, Some(JwtAlice), Some(<< "K", CtlChar >>)}

InitRequest ==
    /\ cmd_opts = [use_test_challenge |-> TRUE, authorized_subject |-> NoneV,
                   source |-> "csv"]
    /\ server_ld = NoneV
    /\ valid_tokens = << >>
    /\ hs = [s \in Streams |-> IdleStream]
    /\ rpc = NoRpc
    /\ storage_db = EmptyDb
    /\ stcall = NoCall
    /\ ctx \in [jwt : ClientJwts]
    /\ put_trace = NoTrace
    /\ fds = NoStream
    /\ ClientInit
    /\ GuestInit

NextRequest ==
    \/ start_connect
    \/ finish_connect
    \/ start_handshake
    \/ finish_handshake
    \/ start_do_get
    \/ finish_do_get
    \/ start_do_put
    \/ \E fin \in BOOLEAN : do_put(NoneV, fin)
    \/ finish_do_put
    \/ ready
    \/ \E out \in TaskOutcomes(task) : TaskComplete(out)
    \/ DataRxDrop

SpecRequest == InitRequest /\ [][NextRequest]_vars

(***************************************************************************)
(* One client putting frames of two kinds, with the record of each DoPut   *)
(* kept: what do_put accepted and what the request stream yielded.         *)
(***************************************************************************)
\* the number of frames the guest puts in one operation
MaxPutFrames == 3

OtherFrame == GuestData(<< 4 >>, << >>, << 5, 6 >>)
\* the `data` arguments of do_put while the guest still has frames to put
TracedPutData ==
    IF Len(put_trace.accepted) < MaxPutFrames
    THEN {NoneV, Some(ClientFrame), Some(OtherFrame)}
    ELSE {NoneV}

InitPut ==
    /\ cmd_opts = [use_test_challenge |-> TRUE, authorized_subject |-> NoneV,
                   source |-> "csv"]
    /\ server_ld = NoneV
    /\ valid_tokens = << >>
    /\ hs = [s \in Streams |-> IdleStream]
    /\ rpc = NoRpc
    /\ storage_db = EmptyDb
    /\ stcall = NoCall
    /\ ctx = [jwt |-> NoneV]
    /\ put_trace = [NoTrace EXCEPT !.tracing = TRUE]
    /\ fds = NoStream
    /\ ClientInit
    /\ GuestInit

NextPut ==
    \/ start_connect
    \/ finish_connect
    \/ start_do_put
    \/ \E data \in TracedPutData, fin \in BOOLEAN : do_put(data, fin)
    \/ finish_do_put
    \/ ready
    \/ \E out \in TaskOutcomes(task) : TaskComplete(out)
    \/ TaskRecvFrame
    \/ DataRxDrop

SpecPut == InitPut /\ [][NextPut]_vars

(***************************************************************************)
(* FlightDataStream over BodyDataStream: a request body of length-         *)
(* delimited FlightData messages, read in chunks and decoded.  A message   *)
(* stands for its protobuf encoding.                                       *)
(***************************************************************************)
\* `vec![0; 4096]`: the most bytes one read of the body returns
BodyReadSize == 4096

\* prost::encode_length_delimiter: a base-128 varint, low group first
encode_length_delimiter(n) ==
    IF n < 128 THEN << n >> ELSE << 128 + (n % 128), n \div 128 >>

\* prost::length_delimiter_len
length_delimiter_len(n) == IF n < 128 THEN 1 ELSE 2

\* prost::decode_length_delimiter
decode_length_delimiter(buf) ==
    IF buf = << >> THEN Err("invalid varint")
    ELSE IF buf[1] < 128 THEN Ok(buf[1])
    ELSE IF Len(buf) < 2 THEN Err("invalid varint")
    ELSE Ok((buf[1] - 128) + 128 * buf[2])

\* flight_data.encode_length_delimited(&mut buf)
encode_length_delimited(msg) == encode_length_delimiter(Len(msg)) \o msg

RECURSIVE write_record(_)
\* write_record: the messages written to the body one after another
write_record(msgs) ==
    IF msgs = << >> THEN << >>
    ELSE encode_length_delimited(Head(msgs)) \o write_record(Tail(msgs))

\* `Some(Ok(bytes)) => {..}` of FlightDataStream::poll_next: the stream after
\* a chunk of the body has arrived
poll_next_bytes(f, bytes) ==
    LET buf == (IF IsSome(f.buffer) THEN Unwrap(f.buffer) ELSE << >>) \o bytes
        d == decode_length_delimiter(buf)
        len == d.val + length_delimiter_len(d.val)
    IN IF ~d.ok
       THEN \* `.unwrap()` panics
            [f EXCEPT !.buffer = NoneV, !.st = "panic"]
       ELSE IF Len(buf) < len
       THEN [f EXCEPT !.buffer = Some(buf)]
       ELSE [f EXCEPT
                !.out = Append(@, SubSeq(buf, length_delimiter_len(d.val) + 1,
                                         len)),
                !.buffer = Some(SubSeq(buf, len + 1, Len(buf)))]

\* BodyDataStream yields the next bytes of the body, as many as the read
\* returned, and FlightDataStream::poll_next takes them
PollNextBytes(k) ==
    /\ fds.st = "open"
    /\ k \in 1..(IF Len(fds.body) < BodyReadSize THEN Len(fds.body)
                 ELSE BodyReadSize)
    /\ fds' = [poll_next_bytes(fds, SubSeq(fds.body, 1, k)) EXCEPT
                  !.body = SubSeq(fds.body, k + 1, Len(fds.body))]
    /\ UNCHANGED << serverVars, clientVars, fpd >>

\* the read of the body fails: `Some(Err(err)) => Poll::Ready(Some(Err(err)))`
PollNextErr ==
    /\ fds.st = "open"
    /\ fds' = [fds EXCEPT !.st = "error"]
    /\ UNCHANGED << serverVars, clientVars, fpd >>

\* the body is exhausted (or has failed): `None => Poll::Ready(None)`
PollNextNone ==
    /\ \/ fds.st = "open" /\ fds.body = << >>
       \/ fds.st = "error"
    /\ fds' = [fds EXCEPT !.st = IF fds.st = "open" THEN "end" ELSE "end_error"]
    /\ UNCHANGED << serverVars, clientVars, fpd >>

\* the number of messages in a body
MaxMsgs == 2

\* encoded messages of 0, 1 and 2 bytes, and one whose length takes two bytes
SmallMessages == {<< >>, << 7 >>, << 8, 9 >>}
BigMessage == [i \in 1..128 |-> 1]
CodecStreams ==
    UNION {[1..n -> SmallMessages] : n \in 0..MaxMsgs} \cup {<< BigMessage >>}

\* no body of CodecStreams is longer than this
MaxBodyLen == 3 * MaxMsgs + 130

InitCodec ==
    /\ cmd_opts = [use_test_challenge |-> TRUE, authorized_subject |-> NoneV,
                   source |-> "csv"]
    /\ server_ld = NoneV
    /\ valid_tokens = << >>
    /\ hs = [s \in Streams |-> IdleStream]
    /\ rpc = NoRpc
    /\ storage_db = EmptyDb
    /\ stcall = NoCall
    /\ ctx = [jwt |-> NoneV]
    /\ put_trace = NoTrace
    /\ ClientInit
    /\ GuestInit
    /\ \E msgs \in CodecStreams :
          fds = [msgs |-> msgs, body |-> write_record(msgs), buffer |-> NoneV,
                 out |-> << >>, st |-> "open"]

NextCodec ==
    \/ \E k \in 1..MaxBodyLen : PollNextBytes(k)
    \/ PollNextErr
    \/ PollNextNone

SpecCodec == InitCodec /\ [][NextCodec]_vars

(***************************************************************************)
(* Properties of the attested handshake.                                   *)
(***************************************************************************)
\* stream slot s is serving one stream throughout the step
Live(s) == hs[s].open /\ IsNone(hs[s].status)
\* the step takes one request from the inbound stream of s
TakesRequest(s) == Live(s) /\ hs'[s].nreq = hs[s].nreq + 1

\* R.report_data differs from the challenge, or server_ld is configured and
\* R.measurement differs from it
ReportMismatch(R, challenge, ld) ==
    \/ R.report_data # challenge
    \/ IsSome(ld) /\ R.measurement # Unwrap(ld)

EndedWith(h, code) == IsSome(h.status) /\ Unwrap(h.status).code = code

ReportPasses(R, challenge, ld) ==
    /\ R.verifier = "accept"
    /\ R.report_data = challenge
    /\ IsNone(ld) \/ R.measurement = Unwrap(ld)

\* C3: valid_tokens is empty at start and changes only by a round-2 handshake
\* step whose report passed all checks, which appends the token it sends; no
\* step removes or rewrites an entry.
C3_TokensOnlyFromHandshake ==
    /\ valid_tokens = << >>
    /\ [][valid_tokens' # valid_tokens =>
            \E s \in Streams :
                /\ TakesRequest(s) /\ hs[s].nreq = 1
                /\ ReportPasses(Unwrap(hs'[s].report), hs[s].challenge, server_ld)
                /\ Len(hs'[s].sent) = Len(hs[s].sent) + 1
                /\ valid_tokens' =
                      Append(valid_tokens, hs'[s].sent[Len(hs'[s].sent)].payload)]_vars

\* two tokens have been issued, the first by a stream that has since ended
C3_Witness ==
    /\ Len(valid_tokens) = 2
    /\ IsSome(server_ld)
    /\ \E s \in Streams :
          /\ Live(s) /\ Len(hs[s].sent) = 2
          /\ hs[s].sent[2].payload = valid_tokens[2]

\* C4: on one stream the counter moves 0 -> 1 -> 2 only; the first request is
\* answered with a 64-byte challenge, only the second request can change
\* valid_tokens, and a third or later request is answered with status internal
\* "too many handshake requests" and leaves valid_tokens as it was.
C4_ThreeStateAutomaton ==
    [][\A s \in Streams :
          /\ Live(s) =>
                /\ hs[s].cnt \in {0, 1, 2}
                /\ hs'[s].cnt = hs[s].cnt
                     \/ (hs'[s].cnt = hs[s].cnt + 1 /\ TakesRequest(s))
          /\ (TakesRequest(s) /\ hs[s].nreq = 0) =>
                /\ hs[s].cnt = 0 /\ hs'[s].cnt = 1
                /\ IsNone(hs'[s].status)
                /\ Len(hs'[s].sent) = 1
                /\ Len(hs'[s].sent[1].payload) = 64
                /\ hs'[s].sent[1].payload = hs'[s].challenge
                /\ valid_tokens' = valid_tokens
          /\ (TakesRequest(s) /\ hs[s].nreq = 1) =>
                hs[s].cnt = 1 /\ hs'[s].cnt = 2
          /\ (TakesRequest(s) /\ hs[s].nreq >= 2) =>
                /\ hs'[s].status =
                      Some(Status("internal", "too many handshake requests"))
                /\ hs'[s].sent = hs[s].sent
                /\ valid_tokens' = valid_tokens
                /\ hs'[s].cnt = 2]_vars

\* a stream was given its token in round 2 and then refused a third request,
\* and the token is still valid
C4_Witness ==
    \E s \in Streams :
        /\ hs[s].nreq = 3
        /\ EndedWith(hs[s], "internal")
        /\ Len(hs[s].sent) = 2
        /\ \E i \in DOMAIN valid_tokens : valid_tokens[i] = hs[s].sent[2].payload

(***************************************************************************)
(* Properties of the gate in front of DoGet and DoPut.                     *)
(***************************************************************************)
\* the header value is present and reads "Bearer <tok>"
HasBearerForm(h) ==
    /\ IsSome(h)
    /\ Len(Unwrap(h)) >= 7
    /\ SubSeq(Unwrap(h), 1, 7) = << "B", "e", "a", "r", "e", "r", " " >>
\* the <tok> of such a header
CarriedToken(h) == SubSeq(Unwrap(h), 8, Len(Unwrap(h)))
ValidTokenSet == {valid_tokens[i] : i \in DOMAIN valid_tokens}
\* the x-yak-authorization header is missing, malformed or carries a token
\* that is not in valid_tokens
SessionRefusable(h) == ~HasBearerForm(h) \/ CarriedToken(h) \notin ValidTokenSet
\* the step is a DoGet or DoPut call: it leaves its record in rpc
Serves == rpc' # rpc
\* the step performs no provider or store operation
NoStoreOp == rpc'.ops = << >> /\ storage_db' = storage_db
Refused == rpc'.status.code = "unauthenticated" /\ NoStoreOp

\* C2: a DoGet or DoPut whose x-yak-authorization header is missing, is not
\* "Bearer <tok>" or carries a token that is not in valid_tokens returns
\* unauthenticated and performs no provider or store operation.
C2_SessionTokenGate ==
    [][(Serves /\ SessionRefusable(rpc'.xyak)) => Refused]_vars

\* a DoPut was refused for its token while another token is valid and a table
\* written by an earlier DoPut is in the store
C2_Witness ==
    /\ rpc.op = "do_put"
    /\ rpc.status = Status("unauthenticated", "Invalid token")
    /\ rpc.ops = << >>
    /\ valid_tokens # << >>
    /\ storage_db # EmptyDb

\* what the claim allows a request with this authorization header to end as
SubjectAsSpecified(auth, out) ==
    /\ IsSome(auth) =>
          \/ out.status.code = "unauthenticated"
          \/ /\ HasBearerForm(auth)
             /\ verify_jwt(CarriedToken(auth)).ok
             /\ out.subject = Some(verify_jwt(CarriedToken(auth)).val)
    /\ out.subject = Some(<< "t", "e", "s", "t" >>) => IsNone(auth)

\* C5: behind the session-token check, a request with an authorization header
\* is served under the verified JWT's sub with "|" replaced by "_" or is
\* rejected unauthenticated, and the subject is "test" only when the header
\* is absent.
C5_SubjectFromJwtOrAbsent ==
    [][(Serves /\ ~SessionRefusable(rpc'.xyak))
          => SubjectAsSpecified(rpc'.auth, rpc')]_vars

\* the step resolved a subject behind the session-token check
SubjectResolved ==
    Serves /\ ~SessionRefusable(rpc'.xyak) /\ IsSome(rpc'.subject)

\* C6: with authorized_subject configured as A, a DoGet or DoPut whose resolved
\* subject differs from A returns unauthenticated before any provider or store
\* operation; with none configured no resolved subject is refused.
C6_AuthorizedSubject ==
    [][SubjectResolved
          => /\ (IsSome(cmd_opts.authorized_subject)
                   /\ rpc'.subject # cmd_opts.authorized_subject) => Refused
             /\ IsNone(cmd_opts.authorized_subject)
                   => rpc'.status.code # "unauthenticated"]_vars

\* the default subject "test" was refused by a server whose allow-listed
\* subject has already written a table
C6_Witness ==
    /\ cmd_opts.authorized_subject = Some(<< "o", "_", "a" >>)
    /\ rpc.subject = Some(<< "t", "e", "s", "t" >>)
    /\ rpc.status = Status("unauthenticated", "Unauthorized subject")
    /\ storage_db # EmptyDb

(***************************************************************************)
(* Properties of the client facade.                                        *)
(***************************************************************************)
\* a finish_* step taken in the in-progress state that matches it
FinishInProgress ==
    \/ finish_connect /\ client.state.tag = "Connecting"
    \/ finish_handshake /\ client.state.tag = "HandshakeProgress"
    \/ finish_do_get /\ client.state.tag = "DoGetProgress"
    \/ finish_do_put /\ client.state.tag = "DoPutRecvProgress"

\* C7: a finish_* called in its in-progress state before the task has
\* delivered returns WouldBlock and leaves state, channel and token as they
\* were; once the task has delivered, the same call takes the result.
C7_WouldBlockPreserves ==
    [][/\ (FinishInProgress /\ oneshot.st = "pending")
             => /\ call'.ret = "WouldBlock"
                /\ client' = client
                /\ oneshot' = oneshot
       /\ (FinishInProgress /\ oneshot.st = "sent")
             => /\ call'.ret \notin {"WouldBlock", "NotInProgress"}
                /\ oneshot'.st = "none"
                /\ client'.state.tag = "Connected" \/ call'.ret # "Ok"]_vars

\* finish_do_put has just returned WouldBlock to a client that holds a token
C7_Witness ==
    /\ call = [op |-> "finish_do_put", ret |-> "WouldBlock"]
    /\ client.state.tag = "DoPutRecvProgress"
    /\ oneshot.st = "pending"
    /\ IsSome(client.token)

\* a finish_* step taken outside its own *Progress and *Ready states
FinishOutOfPlace ==
    \/ finish_connect /\ client.state.tag \notin {"Connecting", "ConnectReady"}
    \/ finish_handshake
         /\ client.state.tag \notin {"HandshakeProgress", "HandshakeReady"}
    \/ finish_do_get /\ client.state.tag \notin {"DoGetProgress", "DoGetReady"}
    \/ finish_do_put
         /\ client.state.tag \notin {"DoPutRecvProgress", "DoPutReady"}

\* C8: a finish_* called in a state other than its own *Progress or *Ready
\* returns NotInProgress and leaves state and token as they were.
C8_NotInProgressPreserves ==
    [][FinishOutOfPlace
          => /\ call'.ret = "NotInProgress"
             /\ client' = client
             /\ UNCHANGED << oneshot, task, dataq >>]_vars

\* finish_do_put has just returned NotInProgress while frames are being sent
C8_Witness ==
    /\ call = [op |-> "finish_do_put", ret |-> "NotInProgress"]
    /\ client.state.tag = "DoPutSendProgress"
    /\ dataq.items # << >>
    /\ IsSome(client.token)

\* C9: when a finish_* reports that the background operation failed
\* (ConnectionRefused or InternalError), the state after the call is Closed.
C9_FailureCloses ==
    [][((finish_connect \/ finish_handshake \/ finish_do_get \/ finish_do_put)
           /\ call'.ret \in {"ConnectionRefused", "InternalError"})
          => client'.state.tag = "Closed"]_vars

\* a call of the facade by the guest
ClientCall ==
    \/ start_connect \/ finish_connect
    \/ start_handshake \/ finish_handshake
    \/ start_do_get \/ finish_do_get
    \/ start_do_put \/ finish_do_put
    \/ \E data \in PutData, fin \in BOOLEAN : do_put(data, fin)

\* C10: once the state is Closed it stays Closed, and every start_*, do_put
\* and finish_* call returns an error, spawns no task and changes nothing of
\* the client.
C10_ClosedIsTerminal ==
    [][client.state.tag = "Closed"
          => /\ client'.state.tag = "Closed"
             /\ ClientCall => /\ call'.ret # "Ok"
                              /\ client' = client
                              /\ UNCHANGED << task, oneshot >>]_vars

\* a closed client that once held a token has been refused a start_do_get
C10_Witness ==
    /\ client.state.tag = "Closed"
    /\ IsSome(client.token)
    /\ call = [op |-> "start_do_get", ret |-> "InvalidState"]

\* the *Progress states in which a start_* finds its own operation running
OwnProgress(op) ==
    IF op = "start_handshake" THEN {"HandshakeProgress"}
    ELSE IF op = "start_do_get" THEN {"DoGetProgress"}
    ELSE {"DoPutSendProgress", "DoPutRecvProgress"}
\* the step leaves the client, its channel, its task and its queue alone
ClientUntouched == client' = client /\ UNCHANGED << oneshot, task, dataq >>
\* what a start_* of an RPC must answer outside Connected
RejectedAs(op) ==
    /\ call'.ret = IF client.state.tag \in OwnProgress(op)
                   THEN "InProgress" ELSE "InvalidState"
    /\ ClientUntouched

\* C11: start_connect outside Default returns AlreadyConnected; start_handshake,
\* start_do_get and start_do_put outside Connected return InProgress when the
\* same operation is in progress and InvalidState otherwise; no task is
\* spawned and state and token stay as they were.
C11_StartRejectedWithoutEffect ==
    [][/\ (start_connect /\ client.state.tag # "Default")
             => call'.ret = "AlreadyConnected" /\ ClientUntouched
       /\ (start_handshake /\ client.state.tag # "Connected")
             => RejectedAs("start_handshake")
       /\ (start_do_get /\ client.state.tag # "Connected")
             => RejectedAs("start_do_get")
       /\ (start_do_put /\ client.state.tag # "Connected")
             => RejectedAs("start_do_put")]_vars

\* start_do_put has just been refused as InProgress while the put result is
\* awaited
C11_Witness ==
    /\ call = [op |-> "start_do_put", ret |-> "InProgress"]
    /\ client.state.tag = "DoPutRecvProgress"
    /\ task = "do_put"

\* a start_* of an RPC called in Connected is accepted: it spawns its task and
\* moves to its *Progress state
AcceptedAs(progress, spawned) ==
    /\ call'.ret = "Ok"
    /\ client'.state.tag = progress
    /\ client'.token = client.token
    /\ task' = spawned
    /\ oneshot'.st = "pending"

\* C12: after every successful finish_* the state is Connected, and every
\* start_handshake, start_do_get and start_do_put called in Connected is
\* accepted, so operations can follow one another on one connected client.
C12_ConnectedIsReentered ==
    [][/\ ((finish_connect \/ finish_handshake \/ finish_do_get \/ finish_do_put)
             /\ call'.ret = "Ok") => client'.state.tag = "Connected"
       /\ (start_handshake /\ client.state.tag = "Connected")
             => AcceptedAs("HandshakeProgress", "handshake")
       /\ (start_do_get /\ client.state.tag = "Connected")
             => AcceptedAs("DoGetProgress", "do_get")
       /\ (start_do_put /\ client.state.tag = "Connected")
             => AcceptedAs("DoPutSendProgress", "do_put")]_vars

\* a client that has already completed one handshake has had a second one
\* accepted
C12_Witness ==
    /\ call = [op |-> "start_handshake", ret |-> "Ok"]
    /\ client.state.tag = "HandshakeProgress"
    /\ IsSome(client.token)

\* the three states a client passes through while connecting
ConnectStates == {"Default", "Connecting", "ConnectReady"}

\* C13: Default, Connecting and ConnectReady are never re-entered once left;
\* start_connect succeeds only in Default, which is left for good by that very
\* call, so it succeeds at most once per client and never after a failed
\* connect.
C13_ConnectOnlyOnce ==
    [][/\ client'.state.tag = "Default" => client.state.tag = "Default"
       /\ client'.state.tag = "Connecting"
             => client.state.tag \in {"Default", "Connecting"}
       /\ client'.state.tag = "ConnectReady"
             => client.state.tag \in {"Connecting", "ConnectReady"}
       /\ (start_connect /\ call'.ret = "Ok")
             => client.state.tag = "Default" /\ client'.state.tag = "Connecting"
       /\ (finish_connect /\ call'.ret \in {"ConnectionRefused", "InternalError"})
             => client'.state.tag \notin ConnectStates]_vars

\* a start_connect refused on a client whose connect attempt has failed
C13_Witness ==
    /\ call = [op |-> "start_connect", ret |-> "AlreadyConnected"]
    /\ client.state.tag = "Closed"
    /\ IsNone(client.token)
    /\ task = "none"

\* C14: do_put with no data and fin = false, called while frames are being
\* sent, returns InvalidParameter, queues nothing and leaves the client in
\* DoPutSendProgress with the same send queue and completion channel.
C14_EmptyPutRejected ==
    [][(do_put(NoneV, FALSE) /\ client.state.tag = "DoPutSendProgress")
          => /\ call'.ret = "InvalidParameter"
             /\ client'.state.tag = "DoPutSendProgress"
             /\ ClientUntouched]_vars

\* the empty call has just been refused with a frame still queued and the
\* result of the operation still awaited
C14_Witness ==
    /\ call = [op |-> "do_put", ret |-> "InvalidParameter"]
    /\ client.state.tag = "DoPutSendProgress"
    /\ dataq.items # << >> /\ dataq.tx_open
    /\ oneshot.st = "pending"

\* C15: a successful do_put in DoPutSendProgress stays there when fin is false
\* and moves to DoPutRecvProgress with the send queue closed when fin is true;
\* from then on every do_put of the operation returns InvalidState, and
\* DoPutSendProgress is entered again only by a new start_do_put.
C15_FinEndsSending ==
    [][/\ \A data \in PutData, fin \in BOOLEAN :
             (do_put(data, fin) /\ call'.ret = "Ok")
                => /\ client.state.tag = "DoPutSendProgress"
                   /\ client'.state.tag = IF fin THEN "DoPutRecvProgress"
                                          ELSE "DoPutSendProgress"
                   /\ dataq'.tx_open = ~fin
                   /\ oneshot' = oneshot
       /\ ((\E data \in PutData, fin \in BOOLEAN : do_put(data, fin))
             /\ client.state.tag \in {"DoPutRecvProgress", "DoPutReady"})
                => call'.ret = "InvalidState" /\ ClientUntouched
       /\ (client'.state.tag = "DoPutSendProgress"
             /\ client.state.tag # "DoPutSendProgress")
                => start_do_put /\ client.state.tag = "Connected"]_vars

\* a frame offered after the final call has just been refused
C15_Witness ==
    /\ call = [op |-> "do_put", ret |-> "InvalidState"]
    /\ client.state.tag = "DoPutRecvProgress"
    /\ ~dataq.tx_open /\ dataq.items # << >>

\* C16: when do_put cannot queue its frame because the queue is full it
\* returns WouldBlock and the client stays in DoPutSendProgress with the same
\* queue and completion channel, so that the call can be retried.
C16_FullQueueKeepsSending ==
    [][((\E data \in PutData, fin \in BOOLEAN : do_put(data, fin))
          /\ call'.ret = "WouldBlock")
          => /\ client'.state.tag = "DoPutSendProgress"
             /\ dataq' = dataq
             /\ oneshot' = oneshot]_vars

\* the *Progress states the pollable waits in, and their *Ready variants
PollableProgress ==
    {"Connecting", "HandshakeProgress", "DoGetProgress", "DoPutRecvProgress"}
ReadyStates == {"ConnectReady", "HandshakeReady", "DoGetReady", "DoPutReady"}
ReadyOf(tag) ==
    CASE tag = "Connecting" -> "ConnectReady"
      [] tag = "HandshakeProgress" -> "HandshakeReady"
      [] tag = "DoGetProgress" -> "DoGetReady"
      [] tag = "DoPutRecvProgress" -> "DoPutReady"
\* the operation's task has ended and its completion sits in the channel of
\* an operation the pollable waits for
Delivered ==
    client.state.tag \in PollableProgress /\ oneshot.st \in {"sent", "tx_dropped"}
AnyFinish == finish_connect \/ finish_handshake \/ finish_do_get \/ finish_do_put

\* C17: for connect, handshake, do_get and do_put after fin, a ready() that
\* completes leaves the matching *Ready state holding the received result; in
\* a *Ready state no finish_* returns WouldBlock and nothing but a finish_*
\* changes the state; and once the task's completion is in the channel the
\* awaited ready() eventually completes (or a finish_* has taken the result).
C17_ReadyThenFinish ==
    /\ [][/\ ready => /\ client.state.tag \in PollableProgress
                      /\ client'.state.tag = ReadyOf(client.state.tag)
                      /\ IsSome(client'.state.res)
          /\ (AnyFinish /\ client.state.tag \in ReadyStates)
                => call'.ret # "WouldBlock"
          /\ (client.state.tag \in ReadyStates /\ client' # client)
                => AnyFinish]_vars
    /\ (Delivered ~> ~Delivered)

\* ready() has completed after the final do_put and holds the delivered result
C17_Witness ==
    /\ call = [op |-> "do_put", ret |-> "Ok"]
    /\ client.state.tag = "DoPutReady"
    /\ IsSome(client.state.res) /\ Unwrap(client.state.res).recv_ok
    /\ oneshot = NoChan

\* the token a finish_handshake is about to take from the channel or from
\* HandshakeReady
DeliveredToken ==
    IF client.state.tag = "HandshakeReady"
    THEN Unwrap(client.state.res).val.token
    ELSE oneshot.val.token
\* "Bearer <text>" as a header value, none for no text
BearerHeader(opt) == IF IsSome(opt) THEN Some(StrBearerSp \o Unwrap(opt)) ELSE NoneV

\* C18: client.token is always the token of the most recent successful
\* finish_handshake (none before the first), and every request that a
\* start_do_get or start_do_put issues carries x-yak-authorization
\* "Bearer <client.token>" exactly when there is such a token, and
\* authorization "Bearer <jwt>" exactly when a JWT is configured.
C18_RequestsCarryToken ==
    [][/\ (finish_handshake /\ call'.ret = "Ok")
             => client'.token = Some(DeliveredToken)
       /\ client'.token # client.token
             => finish_handshake /\ call'.ret = "Ok"
       /\ (request'.built /\ request' # request)
             => /\ (start_do_get /\ request'.op = "do_get")
                   \/ (start_do_put /\ request'.op = "do_put")
                /\ call'.ret = "Ok"
                /\ request'.xyak = BearerHeader(client.token)
                /\ request'.auth = BearerHeader(ctx.jwt)]_vars

\* a DoPut request carrying both headers has been issued
C18_Witness ==
    /\ call = [op |-> "start_do_put", ret |-> "Ok"]
    /\ request.built /\ request.op = "do_put"
    /\ IsSome(client.token) /\ request.xyak = BearerHeader(client.token)
    /\ IsSome(ctx.jwt) /\ request.auth = BearerHeader(ctx.jwt)

\* a client that never completed a handshake has issued a DoGet request
\* without the session header
C18_WitnessNoHandshake ==
    /\ request.built /\ request.op = "do_get"
    /\ IsNone(client.token) /\ IsNone(request.xyak)

\* the i-th frame yielded is the i-th frame accepted, unchanged, and carries
\* the descriptor of path ["save"] exactly when it is the first
YieldedAsAccepted(i) ==
    LET a == put_trace.accepted[i]
        y == put_trace.yielded[i]
    IN /\ y.data_header = a.data_header
       /\ y.app_metadata = a.app_metadata
       /\ y.data_body = a.data_body
       /\ y.flight_descriptor = IF i = 1
                                THEN Some([type |-> "PATH", path |-> << "save" >>])
                                ELSE NoneV

\* C19: within one DoPut operation the frames the request stream has yielded
\* are the first frames do_put accepted, in call order and each once; the
\* first carries the FlightDescriptor of path ["save"] and no later one a
\* descriptor; header, metadata and body are those the guest passed; and as
\* long as the stream lives, every accepted frame is either yielded or still
\* queued in order.
C19_FramesInOrder ==
    put_trace.tracing =>
        /\ Len(put_trace.yielded) <= Len(put_trace.accepted)
        /\ \A i \in 1..Len(put_trace.yielded) : YieldedAsAccepted(i)
        /\ dataq.rx_open =>
              /\ Len(put_trace.yielded) + Len(dataq.items)
                    = Len(put_trace.accepted)
              /\ \A j \in 1..Len(dataq.items) :
                    dataq.items[j] =
                       to_flight_data(
                          put_trace.accepted[Len(put_trace.yielded) + j])

\* three frames, not all alike, have been put and yielded
C19_Witness ==
    /\ put_trace.tracing
    /\ Len(put_trace.yielded) = 3
    /\ put_trace.accepted = << ClientFrame, OtherFrame, ClientFrame >>
    /\ client.state.tag = "DoPutRecvProgress"

\* C20: whatever the chunks the body arrives in, FlightDataStream never fails
\* on a well-formed body, never emits anything but a prefix of the original
\* messages, and has emitted all of them, in order, when it reports the end
\* of the stream.
C20_DecodesEveryChunking ==
    /\ fds.st # "panic"
    /\ fds.st = "end" => fds.out = fds.msgs

\* the number of bytes of the body that have arrived
ReceivedLen == Len(write_record(fds.msgs)) - Len(fds.body)
\* the number of leading messages whose bytes have all arrived
CompleteFrames ==
    CHOOSE n \in 0..Len(fds.msgs) :
        /\ Len(write_record(SubSeq(fds.msgs, 1, n))) <= ReceivedLen
        /\ \A m \in (n + 1)..Len(fds.msgs) :
              Len(write_record(SubSeq(fds.msgs, 1, m))) > ReceivedLen

\* C21: while the bytes received end in an incomplete frame, whether cut in
\* the message body or in the length prefix, FlightDataStream does not fail
\* and emits nothing for that frame; the bytes not yet emitted stay buffered;
\* and a frame is emitted once all of its bytes have arrived.
C21_PartialFramesBuffered ==
    fds.st \in {"open", "panic"} =>
        /\ fds.st # "panic"
        /\ Len(fds.out) = CompleteFrames
        /\ fds.out = SubSeq(fds.msgs, 1, Len(fds.out))
        /\ write_record(fds.out)
              \o (IF IsSome(fds.buffer) THEN Unwrap(fds.buffer) ELSE << >>)
              = SubSeq(write_record(fds.msgs), 1, ReceivedLen)

(***************************************************************************)
(* The storage functions alone: create_storage, insert_data, get_data and  *)
(* get_policy called with every name, schema and batch of a small set, on  *)
(* the database their earlier calls have left.                             *)
(***************************************************************************)
\* the largest number of rows a table of the model holds
MaxRows == 2

\* a subject that is no SQL identifier once joined to a target
StrDashed == << "o", "-", "a" >>
StoreSubjects == {StrAlice, StrDashed}
\* the targets of a call: a clock reading, and a text that ends a statement
\* the subject and target of a call
StoreNames ==
    {<< StrAlice, Target1 >>, << StrDashed, Target1 >>,
     << StrAlice, << "1", ";" >> >>}
ColY == << "y" >>
BadName == << "x", " ", "y" >>
StoreColumns == {ColX, ColY, BadName}

StoreSchemas ==
    {<< [name |-> ColX, type |-> "Float32"], [name |-> ColY, type |-> "Utf8"] >>,
     << [name |-> ColX, type |-> "Binary"] >>,
     << [name |-> BadName, type |-> "Float32"] >>}

\* the policy texts of a call: none, a policy, a text that is no policy
NotAPolicy == [PolicyX EXCEPT !.json_ok = FALSE]
\* a policy with a member PolicyFile does not declare
PolicyNoted == [PolicyX EXCEPT !.unknown = {"note"}]
StorePolicies == {NoneV, Some(PolicyNoted), Some(NotAPolicy)}

Cell(v) == [valid |-> TRUE, v |-> v]
\* the slot of a null entry holds the default of its type
NullCell(data_type) ==
    [valid |-> FALSE,
     v |-> CASE data_type \in {"Utf8", "Binary"} -> << >>
             [] data_type = "Boolean" -> FALSE
             [] OTHER -> 0]
\* the entries a column of a type takes in the model
CellsOf(data_type) ==
    {NullCell(data_type)} \cup
    CASE data_type = "Float32" -> {Cell(15), Cell(NaN)}
      [] data_type = "Int32" -> {Cell(7)}
      [] data_type = "Int64" -> {Cell(7)}
      [] data_type = "Boolean" -> {Cell(TRUE)}
      [] data_type = "Utf8" -> {Cell(<< "a" >>)}
      [] data_type = "Binary" -> {Cell(<< 1 >>)}

\* the record batches of one column
Batch(name, data_type, cells) ==
    [schema |-> << [name |-> name, type |-> data_type] >>,
     rows |-> [i \in DOMAIN cells |-> << cells[i] >>]]
StoreBatches ==
    {Batch(ColX, ty, << >>) : ty \in {"Float32"}}
    \cup UNION {{Batch(ColX, ty, << c >>) : c \in CellsOf(ty) \ {NullCell(ty)}} :
                ty \in {"Float32", "Int32", "Boolean", "Utf8", "Binary",
                         "Int64"}}
    \cup {Batch(ColX, "Float32", << NullCell("Float32") >>),
          Batch(ColX, "Float32", << Cell(15), Cell(15) >>),
          Batch(BadName, "Float32", << >>),
          Batch(BadName, "Float32", << Cell(15) >>),
          Batch(ColY, "Utf8", << Cell(<< "a" >>) >>)}

StoreCreate(subject, schema, policy, now) ==
    LET r == create_storage(storage_db, subject, schema, policy, now) IN
    /\ storage_db' = r.db
    /\ stcall' = [op |-> "create",
                  args |-> [tbl_name |-> table_name(subject, Decimal(now)),
                            names |-> [i \in DOMAIN schema |-> schema[i].name],
                            policy |-> policy],
                  res |-> [ok |-> r.ok, err |-> r.err, sql |-> r.sql,
                           target |-> r.target]]
    /\ UNCHANGED << configVars, valid_tokens, hs, rpc, clientVars, codecVars >>

StoreInsert(subject, target, batch) ==
    LET r == insert_data(storage_db, subject, target, batch) IN
    /\ HasTable(storage_db, table_name(subject, target)) =>
          Len(TableOf(storage_db, table_name(subject, target)).rows)
             + Len(batch.rows) <= MaxRows
    /\ storage_db' = r.db
    /\ stcall' = [op |-> "insert",
                  args |-> [tbl_name |-> table_name(subject, target),
                            names |-> [i \in DOMAIN batch.schema |->
                                          batch.schema[i].name],
                            num_rows |-> Len(batch.rows)],
                  res |-> [ok |-> r.ok, err |-> r.err, sql |-> r.sql]]
    /\ UNCHANGED << configVars, valid_tokens, hs, rpc, clientVars, codecVars >>

StoreGet(subject, target, column_name) ==
    LET r == get_data(storage_db, subject, target, column_name) IN
    /\ stcall' = [op |-> "get",
                  args |-> [tbl_name |-> table_name(subject, target),
                            names |-> << column_name >>],
                  res |-> [ok |-> r.ok, err |-> r.err, sql |-> r.sql,
                           array |-> r.array]]
    /\ UNCHANGED << configVars, valid_tokens, hs, rpc, storage_db, clientVars,
                    codecVars >>

StoreGetPolicy(subject, target, column_name) ==
    LET r == get_policy(storage_db, subject, target, column_name) IN
    /\ stcall' = [op |-> "get_policy",
                  args |-> [tbl_name |-> table_name(subject, target),
                            names |-> << column_name >>],
                  res |-> [ok |-> r.ok, panic |-> r.panic, err |-> r.err,
                           json |-> r.json]]
    /\ UNCHANGED << configVars, valid_tokens, hs, rpc, storage_db, clientVars,
                    codecVars >>

InitStore ==
    /\ ServerInit
    /\ cmd_opts.use_test_challenge
    /\ server_ld = NoneV

NextStore ==
    \/ \E subject \in StoreSubjects, schema \in StoreSchemas,
          policy \in StorePolicies :
          StoreCreate(subject, schema, policy, 1)
    \/ \E n \in StoreNames, batch \in StoreBatches :
          StoreInsert(n[1], n[2], batch)
    \/ \E n \in StoreNames, column_name \in StoreColumns :
          StoreGet(n[1], n[2], column_name)
    \/ \E n \in StoreNames, column_name \in StoreColumns :
          StoreGetPolicy(n[1], n[2], column_name)

SpecStore == InitStore /\ [][NextStore]_vars

\* the latest storage call named a table, a field or a column that is no SQL
\* identifier
BadNameCall(c) ==
    \/ ~is_valid_sqlid(c.args.tbl_name)
    \/ \E i \in DOMAIN c.args.names : ~is_valid_sqlid(c.args.names[i])
\* the step is a call of create_storage, insert_data or get_data
StoreStep == stcall' # stcall /\ stcall'.op \in {"create", "insert", "get"}

\* C22: create, insert and get each fail, having executed no SQL and leaving
\* the database as it was, whenever the table name or a field or column name
\* is not a letter followed by letters, digits and underscores.
C22_InvalidNameFails ==
    [][StoreStep /\ BadNameCall(stcall') =>
          /\ ~stcall'.res.ok
          /\ stcall'.res.sql = << >>
          /\ storage_db' = storage_db]_vars

\* What holds of every such call: create and get fail, insert fails when its
\* batch has a row, and with or without rows no SQL is executed and the
\* database stays as it was.
InvalidNameNoSql ==
    [][StoreStep /\ BadNameCall(stcall') =>
          /\ stcall'.res.ok =>
                /\ stcall'.op = "insert"
                /\ stcall'.args.num_rows = 0
                /\ is_valid_sqlid(stcall'.args.tbl_name)
          /\ stcall'.res.sql = << >>
          /\ storage_db' = storage_db]_vars

InvalidNameInsertFails ==
    /\ stcall.op = "insert"
    /\ is_valid_sqlid(stcall.args.tbl_name)
    /\ HasTable(storage_db, stcall.args.tbl_name)
    /\ BadNameCall(stcall)
    /\ stcall.args.num_rows > 0
    /\ ~stcall.res.ok

\* the stored values of a column of a table, in row order
StoredColumn(db, tbl_name, column_name) ==
    LET t == TableOf(db, tbl_name)
        c == CHOOSE c \in DOMAIN t.cols : t.cols[c].name = column_name
    IN [r \in DOMAIN t.rows |-> t.rows[r][c]]
\* the array type a stored value is read as
ReadAs(value) ==
    CASE value.kind \in {"Integer", "Real"} -> "Float32"
      [] value.kind = "Text" -> "Utf8"
      [] value.kind = "Blob" -> "Binary"
      [] OTHER -> "Null"
\* the step is a successful call of get_data
GetStep == stcall' # stcall /\ stcall'.op = "get" /\ stcall'.res.ok

\* C24: get returns one array with one entry per row of the table, in row
\* order: Float32 if a row holds a number, else Utf8 if a row holds text, else
\* Binary; a row that is NULL or of another kind is a null entry, not dropped.
C24_OneEntryPerRow ==
    [][GetStep =>
          LET stored == StoredColumn(storage_db, stcall'.args.tbl_name,
                                     stcall'.args.names[1])
              array == stcall'.res.array
              type == IF \E r \in DOMAIN stored : ReadAs(stored[r]) = "Float32"
                      THEN "Float32"
                      ELSE IF \E r \in DOMAIN stored : ReadAs(stored[r]) = "Utf8"
                      THEN "Utf8"
                      ELSE "Binary"
          IN /\ array.type = type
             /\ Len(array.values) = Len(stored)
             /\ \A r \in DOMAIN stored :
                   array.values[r] = IF ReadAs(stored[r]) = type
                                     THEN Some(stored[r].v) ELSE NoneV]_vars

\* What holds of every get: the type is chosen as stated, and the entries are
\* those of the rows that are not NULL, in row order.
NullRowsDropped ==
    [][GetStep =>
          LET stored == StoredColumn(storage_db, stcall'.args.tbl_name,
                                     stcall'.args.names[1])
              kept == SelectSeq(stored, LAMBDA v : v.kind # "Null")
              array == stcall'.res.array
          IN /\ Len(array.values) = Len(kept)
             /\ \A r \in DOMAIN kept :
                   array.values[r] = IF ReadAs(kept[r]) = array.type
                                     THEN Some(kept[r].v) ELSE NoneV]_vars

\* the step is a call of get_policy
GetPolicyStep == stcall' # stcall /\ stcall'.op = "get_policy"

\* C25: for every stored policy document and every requested column c,
\* get_policy returns a policy in which every rule's column_name is c and the
\* rule ids, requires, rejects, func_policy and table_verifiers are those of
\* the stored document; rewriting the returned policy for c again changes
\* nothing.  A policy document is a stored text that parses as a PolicyFile.
C25_PolicyRewrite ==
    [][/\ GetPolicyStep
       /\ HasPolicy(storage_db, stcall'.args.tbl_name)
       /\ PolicyOf(storage_db, stcall'.args.tbl_name).json_ok
       =>
       LET doc == PolicyOf(storage_db, stcall'.args.tbl_name)
           c == stcall'.args.names[1]
       IN /\ stcall'.res.ok
          /\ LET out == Unwrap(stcall'.res.json) IN
             /\ out.json_ok
             /\ DOMAIN out.rules = DOMAIN doc.rules
             /\ \A k \in DOMAIN out.rules :
                   /\ out.rules[k].column_name = c
                   /\ out.rules[k].requires = doc.rules[k].requires
                   /\ out.rules[k].rejects = doc.rules[k].rejects
                   /\ out.rules[k].table_verifier = doc.rules[k].table_verifier
             /\ out.func_policy = doc.func_policy
             /\ out.table_verifiers = doc.table_verifiers
             /\ out.default_table_verifier = doc.default_table_verifier
             /\ policy_to_string(rewrite_rules(policy_from_json(out), c)) = out
      ]_vars

C25_Witness ==
    /\ stcall.op = "get_policy"
    /\ stcall.res.ok
    /\ HasPolicy(storage_db, stcall.args.tbl_name)
    /\ \E k \in DOMAIN PolicyOf(storage_db, stcall.args.tbl_name).rules :
          PolicyOf(storage_db, stcall.args.tbl_name).rules[k].column_name
             # stcall.args.names[1]
    /\ PolicyOf(storage_db, stcall.args.tbl_name) # Unwrap(stcall.res.json)

(***************************************************************************)
(* DoPut and DoGet behind one handshake: the streams a DoPut can carry and *)
(* the tickets of a DoGet, for the subject of a JWT and for the subject    *)
(* "test" of a request without one, with a CSV or a financial-filing       *)
(* provider behind the target "system".                                    *)
(***************************************************************************)
SchemaT == << [name |-> ColX, type |-> "Utf8"] >>
\* the Schema frames of a stream: with the policy as app_metadata or without
SchemaFrameOf(schema, app_metadata) ==
    [ok |-> TRUE, app_metadata |-> app_metadata, kind |-> "Schema",
     schema |-> schema, rows |-> << >>]
\* a RecordBatch frame of one column
BatchFrameOf(schema, cells) ==
    [ok |-> TRUE, app_metadata |-> << >>, kind |-> "RecordBatch",
     schema |-> schema, rows |-> [i \in DOMAIN cells |-> << cells[i] >>]]
\* a frame FlightDataDecoder yields as Err: a malformed Flight frame or an
\* Arrow schema error
ErrFrame ==
    [ok |-> FALSE, app_metadata |-> << >>, kind |-> "None", schema |-> << >>,
     rows |-> << >>]
\* a frame with no payload that carries app_metadata
NoneFrame ==
    [ok |-> TRUE, app_metadata |-> << PolicyX >>, kind |-> "None",
     schema |-> << >>, rows |-> << >>]

\* the decoded streams of a DoPut; the decoder yields a RecordBatch only
\* after a Schema, and with that schema
DataStreams ==
    {<< >>,
     << ErrFrame >>,
     << SchemaFrame, BatchFrame >>,
     << SchemaFrameOf(SchemaX, << >>), BatchFrame >>,
     << SchemaFrame,
        BatchFrameOf(SchemaX, << Cell(15), NullCell("Float32") >>) >>,
     << SchemaFrame, ErrFrame, BatchFrame >>,
     << SchemaFrameOf(SchemaT, << PolicyX >>),
        BatchFrameOf(SchemaT, << Cell(<< "a" >>) >>) >>,
     << NoneFrame, SchemaFrameOf(SchemaX, << >>) >>,
     << SchemaFrame, BatchFrame, SchemaFrame >>}

DataHeaders ==
    {[xyak |-> FirstToken, auth |-> a] :
        a \in {NoneV, Some(StrBearerSp \o JwtAlice)}}
PutDataRequests ==
    {[xyak |-> h.xyak, auth |-> h.auth, frames |-> f, now |-> 1] :
        h \in DataHeaders, f \in DataStreams}

\* a column name of the financial-filing provider: item/context/year
ColFiling == << "i", "/", "c", "/", "y" >>
\* the policy stored for the item i
PolicyByItem ==
    [PolicyX EXCEPT !.rules =
        [k \in {<< "i" >>} |->
            [column_name |-> << "i" >>, requires |-> << "mean_minimum_100" >>,
             rejects |-> << >>, table_verifier |-> NoneV]]]
\* a stored policy with no rule
PolicyNoRule == policy_to_string(PolicyFileNew)
DataProviders ==
    {ProviderOk,
     [ProviderOk EXCEPT !.stored = Some(PolicyNoted)],
     [ProviderOk EXCEPT !.stored = Some(PolicyNoRule)],
     [ProviderOk EXCEPT !.by_item = Some(PolicyByItem)],
     [ProviderOk EXCEPT !.batches = << ColumnX, ColumnX >>],
     [ProviderOk EXCEPT !.policy_ok = FALSE]}
DataTickets ==
    {BadTicket, StoredTicket,
     [json_ok |-> TRUE, target |-> Target1, column_name |-> ColY]}
GetDataRequests ==
    {[xyak |-> h.xyak, auth |-> h.auth, ticket |-> t, provider |-> ProviderOk] :
        h \in DataHeaders, t \in DataTickets}
    \cup {[xyak |-> h.xyak, auth |-> h.auth,
           ticket |-> [json_ok |-> TRUE, target |-> StrSystem,
                       column_name |-> c],
           provider |-> p] :
            h \in DataHeaders, c \in {ColX, ColFiling}, p \in DataProviders}

InitData ==
    /\ cmd_opts \in [use_test_challenge : {TRUE}, authorized_subject : {NoneV},
                     source : {"csv", "edinet"}]
    /\ server_ld = NoneV
    /\ valid_tokens = << >>
    /\ hs = [s \in Streams |-> IdleStream]
    /\ rpc = NoRpc
    /\ storage_db = EmptyDb
    /\ stcall = NoCall
    /\ ctx = [jwt |-> NoneV]
    /\ put_trace = NoTrace
    /\ fds = NoStream
    /\ ClientInit
    /\ GuestInit

NextData ==
    \/ HandshakeOpen(1)
    \/ HandshakeRound1(1, Bytes(ChallengeLen, 1))
    \/ \E req \in ServiceReports :
          HandshakeRound2(1, req, Bytes(TokenLen, 10))
    \/ \E req \in GetDataRequests : DoGet(req)
    \/ \E req \in PutDataRequests : DoPut(req)

SpecData == InitData /\ [][NextData]_vars

\* the rows of the RecordBatch frames a stream wrote, in order
RECURSIVE WrittenRows(_)
WrittenRows(frames) ==
    IF frames = << >> THEN << >>
    ELSE IF Head(frames).ok /\ Head(frames).kind = "RecordBatch"
    THEN Head(frames).rows \o WrittenRows(Tail(frames))
    ELSE WrittenRows(Tail(frames))
\* the schema of the stream's Schema frame
WrittenSchema(frames) ==
    LET i == CHOOSE i \in DOMAIN frames : frames[i].ok /\ frames[i].kind = "Schema"
    IN frames[i].schema
\* the entries of the RecordBatch frames of a DoGet response, in order
RECURSIVE ReturnedColumn(_)
ReturnedColumn(resp) ==
    IF resp = << >> THEN << >>
    ELSE IF Head(resp).kind = "RecordBatch"
    THEN Head(resp).array.values \o ReturnedColumn(Tail(resp))
    ELSE ReturnedColumn(Tail(resp))
\* the type a written column is read back as
CoercedType(data_type) ==
    CASE data_type \in {"Int32", "Float32"} -> "Float32"
      [] data_type = "Utf8" -> "Utf8"
      [] OTHER -> "Binary"
\* the step is a DoGet, by the subject of the successful DoPut before it, of
\* a column of the table that DoPut named
GetAfterPut ==
    /\ rpc.op = "do_put" /\ rpc.status.code = "ok"
    /\ rpc'.op = "do_get" /\ rpc'.subject = rpc.subject
    /\ rpc'.body.ticket.json_ok
    /\ rpc'.body.ticket.target = rpc.resp[1].app_metadata
    /\ \E k \in DOMAIN WrittenSchema(rpc.body.frames) :
          WrittenSchema(rpc.body.frames)[k].name = rpc'.body.ticket.column_name

\* C23: a DoGet that follows a successful DoPut, by the same subject, for the
\* returned name and a written column, succeeds and returns one entry per
\* written row, in write order: the written value under the coercion
\* Int32/Float32 -> Float32, Utf8 -> Utf8, Binary -> Binary, and a null entry
\* for a row written as null.
C23_PutGetRoundTrip ==
    [][GetAfterPut =>
          LET schema == WrittenSchema(rpc.body.frames)
              k == CHOOSE k \in DOMAIN schema :
                      schema[k].name = rpc'.body.ticket.column_name
              rows == WrittenRows(rpc.body.frames)
              col == ReturnedColumn(rpc'.resp)
          IN /\ rpc'.status.code = "ok"
             /\ Len(col) = Len(rows)
             /\ \A r \in DOMAIN rows :
                   col[r] = IF rows[r][k].valid THEN Some(rows[r][k].v)
                            ELSE NoneV
             /\ rows # << >> =>
                   rpc'.resp[1].type = CoercedType(schema[k].type)]_vars

\* What holds of such a DoGet when the stream carried a policy that parses
\* and wrote no null: it succeeds and returns the written values in order.
RoundTripOfValues ==
    [][/\ GetAfterPut
       /\ HasPolicy(storage_db, table_name(Unwrap(rpc.subject),
                                           rpc.resp[1].app_metadata))
       /\ \A r \in DOMAIN WrittenRows(rpc.body.frames) :
             \A k \in DOMAIN WrittenRows(rpc.body.frames)[r] :
                WrittenRows(rpc.body.frames)[r][k].valid
       =>
          LET schema == WrittenSchema(rpc.body.frames)
              k == CHOOSE k \in DOMAIN schema :
                      schema[k].name = rpc'.body.ticket.column_name
              rows == WrittenRows(rpc.body.frames)
              col == ReturnedColumn(rpc'.resp)
          IN /\ rpc'.status.code = "ok"
             /\ col = [r \in DOMAIN rows |-> Some(rows[r][k].v)]]_vars

\* the policy JSON obtained for the subject, target and column of the latest
\* DoGet
PolicyObtained ==
    LET ticket == rpc.body.ticket
        subject == Unwrap(rpc.subject)
    IN IF ticket.target # StrSystem
       THEN Unwrap(get_policy(storage_db, subject, ticket.target,
                              ticket.column_name).json)
       ELSE IF cmd_opts.source = "csv"
       THEN csv_get_policy(rpc.body.provider, subject, ticket.column_name).val
       ELSE edinet_get_policy(rpc.body.provider, subject,
                              ticket.column_name).val
SuccessfulDoGet == rpc.op = "do_get" /\ rpc.status.code = "ok"

AuthorisedPut ==
    rpc' # rpc /\ rpc'.op = "do_put" /\ rpc'.status.code # "unauthenticated"
\* the stream has a frame that decodes to a Schema
HasSchemaFrame(frames) ==
    \E i \in DOMAIN frames : frames[i].ok /\ frames[i].kind = "Schema"
\* the table a stream's Schema frame created holds the stream's rows and, when
\* that frame carried app_metadata, has it as its policy
StreamStored(frames, subject, db0, db1, resp) ==
    LET tbl_name == table_name(subject, resp[1].app_metadata)
        i == CHOOSE i \in DOMAIN frames : frames[i].ok /\ frames[i].kind = "Schema"
    IN /\ ~HasTable(db0, tbl_name)
       /\ HasTable(db1, tbl_name)
       /\ Len(TableOf(db1, tbl_name).rows) = Len(WrittenRows(frames))
       /\ frames[i].app_metadata # << >> =>
             /\ HasPolicy(db1, tbl_name)
             /\ PolicyOf(db1, tbl_name) = frames[i].app_metadata[1]

\* C27: every authorised DoPut stream whose storage calls succeed is answered
\* at its end with exactly one PutResult carrying the target of the table its
\* Schema frame created, which holds the rows of its RecordBatch frames and
\* the Schema frame's app_metadata as policy; a stream that ends without a
\* Schema frame is answered with one PutResult as well.
C27_PutStreamAnswered ==
    [][AuthorisedPut /\ rpc'.status.code # "internal" =>
          /\ rpc'.status.code = "ok"
          /\ Len(rpc'.resp) = 1
          /\ rpc'.resp[1].kind = "PutResult"
          /\ HasSchemaFrame(rpc'.body.frames) =>
                StreamStored(rpc'.body.frames, Unwrap(rpc'.subject),
                             storage_db, storage_db', rpc'.resp)]_vars

\* What holds of the streams that have a Schema frame.
PutStreamWithSchema ==
    [][/\ AuthorisedPut /\ rpc'.status.code # "internal"
       /\ HasSchemaFrame(rpc'.body.frames)
       =>
          /\ rpc'.status.code = "ok"
          /\ Len(rpc'.resp) = 1
          /\ rpc'.resp[1].kind = "PutResult"
          /\ StreamStored(rpc'.body.frames, Unwrap(rpc'.subject),
                          storage_db, storage_db', rpc'.resp)]_vars

\* the step is a DoGet that passed the authorisation pipeline
AuthorisedGet ==
    rpc' # rpc /\ rpc'.op = "do_get" /\ rpc'.status.code # "unauthenticated"

\* C28: an authorised DoGet whose ticket is not the JSON of a target and a
\* column_name returns invalid_argument and performs no provider or store
\* operation.
C28_BadTicketInvalidArgument ==
    [][AuthorisedGet /\ ~rpc'.body.ticket.json_ok =>
          /\ rpc'.status.code = "invalid_argument"
          /\ rpc'.ops = << >>
          /\ storage_db' = storage_db]_vars

\* What holds of such a DoGet: it performs no provider or store operation
\* and sends no frame.
BadTicketNoOperation ==
    [][AuthorisedGet /\ ~rpc'.body.ticket.json_ok =>
          /\ rpc'.ops = << >>
          /\ rpc'.resp = << >>
          /\ storage_db' = storage_db]_vars

\* C29: an authorised DoPut whose stream has a frame that fails to decode
\* ends with the status internal and returns no PutResult.
C29_DecodeErrorInternal ==
    [][/\ AuthorisedPut
       /\ \E i \in DOMAIN rpc'.body.frames : ~rpc'.body.frames[i].ok
       =>
          /\ rpc'.status.code = "internal"
          /\ rpc'.resp = << >>]_vars

\* the policy sent with the latest successful DoGet
PolicySent == rpc.resp[1].app_metadata[1]
\* no policy is stored for the subject or table of the latest DoGet
NoPolicyStored ==
    IF rpc.body.ticket.target = StrSystem
    THEN IsNone(rpc.body.provider.stored) /\ IsNone(rpc.body.provider.by_item)
    ELSE ~HasPolicy(storage_db,
                    table_name(Unwrap(rpc.subject), rpc.body.ticket.target))
\* the policy has a rule for the column that requires a verifier check
RequiresCheck(policy, column_name) ==
    \E k \in DOMAIN policy.rules :
        /\ policy.rules[k].column_name = column_name
        /\ policy.rules[k].requires # << >>

\* C30: whichever the data source, the policy sent with a DoGet when none is
\* stored for the subject or table is a default with a rule for the requested
\* column that requires a verifier check, and no data is sent with a policy
\* that has no rule.
C30_DefaultPolicyHasRule ==
    SuccessfulDoGet =>
        /\ DOMAIN PolicySent.rules # {}
        /\ NoPolicyStored =>
              RequiresCheck(PolicySent, rpc.body.ticket.column_name)

\* What holds of the financial-filing provider and of the store: the first
\* sends its default, which has such a rule, and the second sends no data
\* when no policy is stored.
DefaultPolicyOfFilings ==
    SuccessfulDoGet /\ NoPolicyStored =>
        /\ rpc.body.ticket.target = StrSystem
        /\ cmd_opts.source = "edinet" =>
              RequiresCheck(PolicySent, rpc.body.ticket.column_name)

(***************************************************************************)
(* FunctionPolicyDef of isekai-utils: the number predicate of a function   *)
(* policy, such as ">100".                                                 *)
(***************************************************************************)
\* str::replace(c, ""): the text without every occurrence of c
replace(s, c) == SelectSeq(s, LAMBDA x : x # c)

RECURSIVE digits_value(_)
\* the number a run of decimal digits denotes
digits_value(s) ==
    IF s = << >> THEN 0
    ELSE 10 * digits_value(SubSeq(s, 1, Len(s) - 1))
         + (CHOOSE d \in 0..9 : DigitChars[d + 1] = s[Len(s)])

\* str::parse::<i64>(): an optional sign, then one or more decimal digits and
\* nothing else (texts of the lengths explored here stay far inside i64)
parse(s) ==
    LET signed == s # << >> /\ s[1] \in {"+", "-"}
        body == IF signed THEN Tail(s) ELSE s
    IN IF body = << >> \/ \E i \in DOMAIN body : body[i] \notin Digits
       THEN [ok |-> FALSE, val |-> 0]
       ELSE [ok |-> TRUE,
             val |-> IF signed /\ s[1] = "-" THEN 0 - digits_value(body)
                     ELSE digits_value(body)]

\* FunctionPolicyDef::get_num: the ordering and the number of the predicate
get_num(num) ==
    LET value_str == replace(replace(replace(num, "<"), ">"), "=")
        value == parse(value_str)
    IN IF ~value.ok THEN << "UN", 0 >>
       ELSE IF Len(num) < 1 THEN << "UN", 0 >>
       ELSE IF num[1] = "="
       THEN IF Len(num) < 2 THEN << "UN", 0 >>
            ELSE IF num[2] = "<" THEN << "LE", value.val >>
            ELSE IF num[2] = ">" THEN << "GE", value.val >>
            ELSE << "EQ", value.val >>
       ELSE IF num[1] = "<" THEN << "LT", value.val >>
       ELSE IF num[1] = ">" THEN << "GT", value.val >>
       ELSE << "UN", 0 >>

assert_value_strict(num, value) ==
    LET ord == get_num(num)[1]
        v == get_num(num)[2]
    IN IF ord = "GT" /\ value <= v THEN "Ok(false)"
       ELSE IF ord = "GE" /\ value <= v THEN "Ok(false)"
       ELSE IF ord = "EQ" /\ value # v THEN "Ok(false)"
       ELSE IF ord = "LE" /\ value >= v THEN "Ok(false)"
       ELSE IF ord = "LT" /\ value >= v THEN "Ok(false)"
       ELSE IF ord = "UN" THEN "Err"
       ELSE "Ok(true)"

\* FunctionPolicyDef::assert_value
assert_value(num, value) ==
    LET ord == get_num(num)[1]
        v == get_num(num)[2]
    IN IF ord = "GT" /\ value <= v THEN "Ok(false)"
       ELSE IF ord = "GE" /\ value < v THEN "Ok(false)"
       ELSE IF ord = "EQ" /\ value # v THEN "Ok(false)"
       ELSE IF ord = "LE" /\ value > v THEN "Ok(false)"
       ELSE IF ord = "LT" /\ value >= v THEN "Ok(false)"
       ELSE IF ord = "UN" THEN "Err"
       ELSE "Ok(true)"

\* FunctionPolicyDef::new
new(num) == [num |-> num, called |-> FALSE, value |-> 0, result |-> "none"]

\* a call of assert_value on the predicate
AssertValue(value) ==
    /\ fpd' = [fpd EXCEPT !.called = TRUE, !.value = value,
                          !.result = assert_value(fpd.num, value)]
    /\ UNCHANGED << serverVars, clientVars, fds >>

\* the length of a predicate text
MaxLen == 4
\* the characters of a predicate text: the comparison signs, a sign, two
\* digits and a letter
PredicateChars == {"<", ">", "=", "-", "0", "1", "f"}
PredicateTexts == UNION {[1..n -> PredicateChars] : n \in 0..MaxLen}
\* the values a predicate is asked about
PredicateValues == -2..11

\* a server that does nothing
QuietInit ==
    /\ cmd_opts = [use_test_challenge |-> TRUE, authorized_subject |-> NoneV,
                   source |-> "csv"]
    /\ server_ld = NoneV
    /\ valid_tokens = << >>
    /\ hs = [s \in Streams |-> IdleStream]
    /\ rpc = NoRpc
    /\ storage_db = EmptyDb
    /\ stcall = NoCall
    /\ ctx = [jwt |-> NoneV]

InitPredicate ==
    /\ QuietInit
    /\ put_trace = NoTrace
    /\ ClientInit
    /\ fds = NoStream
    /\ bridge = NoBridge
    /\ \E num \in PredicateTexts : fpd = new(num)

NextPredicate == \E value \in PredicateValues : AssertValue(value)

SpecPredicate == InitPredicate /\ [][NextPredicate]_vars

\* Display of an i64
to_string(n) == IF n < 0 THEN << "-" >> \o Decimal(0 - n) ELSE Decimal(n)

\* the answer of a comparison that holds or does not
Answer(holds) == IF holds THEN "Ok(true)" ELSE "Ok(false)"

\* C31: for every integer n and value v, the predicates ">n", "<n", "=n",
\* "=<n" and "=>n" parse to (GT, n), (LT, n), (EQ, n), (LE, n) and (GE, n),
\* and assert_value(v) answers Ok(true) exactly when v > n, v < n, v = n,
\* v <= n and v >= n respectively, and Ok(false) otherwise.
C31_ComparisonPredicates ==
    fpd.called =>
        \A n \in -111..111 :
            LET s == to_string(n)
                v == fpd.value
            IN /\ fpd.num = << ">" >> \o s =>
                    /\ get_num(fpd.num) = << "GT", n >>
                    /\ fpd.result = Answer(v > n)
               /\ fpd.num = << "<" >> \o s =>
                    /\ get_num(fpd.num) = << "LT", n >>
                    /\ fpd.result = Answer(v < n)
               /\ fpd.num = << "=" >> \o s =>
                    /\ get_num(fpd.num) = << "EQ", n >>
                    /\ fpd.result = Answer(v = n)
               /\ fpd.num = << "=", "<" >> \o s =>
                    /\ get_num(fpd.num) = << "LE", n >>
                    /\ fpd.result = Answer(v <= n)
               /\ fpd.num = << "=", ">" >> \o s =>
                    /\ get_num(fpd.num) = << "GE", n >>
                    /\ fpd.result = Answer(v >= n)

\* "=>-1" was asked about -1 and answered Ok(true)
C31_Witness ==
    /\ fpd.called
    /\ fpd.num = << "=", ">", "-", "1" >>
    /\ fpd.value = -1
    /\ fpd.result = "Ok(true)"

\* an integer as the claim means it: an optional minus sign, then digits
IsInteger(s) ==
    LET body == IF s # << >> /\ s[1] = "-" THEN Tail(s) ELSE s
    IN body # << >> /\ \A i \in DOMAIN body : body[i] \in Digits

\* an optional leading "=", then exactly one of "<", ">", "=", then an integer
WellFormed(num) ==
    \E k \in {0, 1} :
        /\ k = 1 => (num # << >> /\ num[1] = "=")
        /\ Len(num) > k + 1
        /\ num[k + 1] \in {"<", ">", "="}
        /\ IsInteger(SubSeq(num, k + 2, Len(num)))

\* C32: for every predicate text that is not an optional leading "=", then
\* exactly one of "<", ">", "=", then an integer, get_num yields UN and
\* assert_value returns the ill-formed-predicate error for every value.
C32_IllFormedRejected ==
    (fpd.called /\ ~WellFormed(fpd.num)) =>
        /\ get_num(fpd.num) = << "UN", 0 >>
        /\ fpd.result = "Err"

\* what does hold: a text whose first character is no comparison sign, or
\* whose characters other than "<", ">" and "=" are not an integer, is refused
IllFormedRefused ==
    (fpd.called
     /\ \/ fpd.num = << >>
        \/ fpd.num[1] \notin {"<", ">", "="}
        \/ ~IsInteger(replace(replace(replace(fpd.num, "<"), ">"), "=")))
    => fpd.result = "Err"

(***************************************************************************)
(* The incoming response resources of the client host: the stream of a     *)
(* DoGet or DoPut response, read with get() and awaited with ready().      *)
(***************************************************************************)
\* what a poll of the tonic stream yields
PollItem(x) == [kind |-> "item", val |-> Some(x)]
PollErr == [kind |-> "err", val |-> NoneV]
PollEnd == [kind |-> "end", val |-> NoneV]
PollPending == [kind |-> "pending", val |-> NoneV]

\* stream.poll_next_unpin(&mut cx), and stream.next() where it resolves: the
\* next message or error that has arrived, None after the end of the stream,
\* Pending when nothing has arrived
poll_next_unpin(inc) ==
    IF inc.stream # << >>
    THEN [res |-> Head(inc.stream), inc |-> [inc EXCEPT !.stream = Tail(@)]]
    ELSE IF inc.ended THEN [res |-> PollEnd, inc |-> inc]
    ELSE [res |-> PollPending, inc |-> inc]

\* the record handed to the guest: the fields of FlightData for a DoGet
\* response, the app_metadata of PutResult for a DoPut response
to_guest(kind, data) ==
    IF kind = "put" THEN [app_metadata |-> data.app_metadata]
    ELSE [flight_descriptor |-> data.flight_descriptor,
          data_header |-> data.data_header,
          app_metadata |-> data.app_metadata,
          data_body |-> data.data_body]

incoming_get_keeps_pending(inc) ==
    LET taken == IsSome(inc.pending_data)
        polled == poll_next_unpin(inc)
        res == IF taken THEN Unwrap(inc.pending_data) ELSE polled.res
        after == IF taken THEN inc ELSE polled.inc
    IN IF res.kind = "pending"
       THEN [after EXCEPT !.last = "get",
                          !.ret = [code |-> "WouldBlock", val |-> NoneV]]
       ELSE IF res.kind = "item"
       THEN [after EXCEPT
                !.last = "get",
                !.ret = [code |-> "Ok",
                         val |-> Some(to_guest(inc.kind, Unwrap(res.val)))],
                !.got = Append(@, to_guest(inc.kind, Unwrap(res.val)))]
       ELSE IF res.kind = "err"
       THEN [after EXCEPT !.last = "get",
                          !.ret = [code |-> "InternalError", val |-> NoneV]]
       ELSE [after EXCEPT !.last = "get",
                          !.ret = [code |-> "Ok", val |-> NoneV]]

\* HostIncomingResponse::get and HostIncomingPutResponse::get: the resource
\* after the call, with what the call returned in ret
incoming_get(inc) ==
    LET taken == IsSome(inc.pending_data)
        polled == poll_next_unpin(inc)
        res == IF taken THEN Unwrap(inc.pending_data) ELSE polled.res
        after == IF taken THEN [inc EXCEPT !.pending_data = NoneV]
                 ELSE polled.inc
    IN IF res.kind = "pending"
       THEN [after EXCEPT !.last = "get",
                          !.ret = [code |-> "WouldBlock", val |-> NoneV]]
       ELSE IF res.kind = "item"
       THEN [after EXCEPT
                !.last = "get",
                !.ret = [code |-> "Ok",
                         val |-> Some(to_guest(inc.kind, Unwrap(res.val)))],
                !.got = Append(@, to_guest(inc.kind, Unwrap(res.val)))]
       ELSE IF res.kind = "err"
       THEN [after EXCEPT !.last = "get",
                          !.ret = [code |-> "InternalError", val |-> NoneV]]
       ELSE [after EXCEPT !.last = "get",
                          !.ret = [code |-> "Ok", val |-> NoneV]]

\* whether <HostFlightIncomingResponse as Pollable>::ready can complete: at
\* once with pending data, else when stream.next() resolves
incoming_ready_resolves(inc) ==
    IsSome(inc.pending_data) \/ poll_next_unpin(inc).res.kind # "pending"

\* the resource when ready() has completed
incoming_ready(inc) ==
    IF IsSome(inc.pending_data) THEN [inc EXCEPT !.last = "ready"]
    ELSE [poll_next_unpin(inc).inc EXCEPT
             !.pending_data = Some(poll_next_unpin(inc).res),
             !.last = "ready"]

\* the guest calls get on the resource
IncomingGet ==
    /\ incoming.open
    /\ incoming' = incoming_get(incoming)
    /\ UNCHANGED << client, oneshot, task, dataq, call, request, putVars,
                    outsideVars >>

\* ready() of the resource completes
IncomingReady ==
    /\ incoming.open
    /\ incoming_ready_resolves(incoming)
    /\ incoming' = incoming_ready(incoming)
    /\ UNCHANGED << client, oneshot, task, dataq, call, request, putVars,
                    outsideVars >>

\* the number of messages of a response
MaxItems == 3

\* a message of the server arrives on the response stream
StreamArrive(data) ==
    /\ incoming.open /\ ~incoming.ended
    /\ Len(incoming.sent) < MaxItems
    /\ incoming' = [incoming EXCEPT
                       !.stream = Append(@, PollItem(data)),
                       !.sent = Append(@, to_guest(incoming.kind, data))]
    /\ UNCHANGED << client, oneshot, task, dataq, call, request, putVars,
                    outsideVars >>

\* the response stream ends: with the end of the response, or with an error
\* status after which the stream yields nothing more
StreamEnd(failed) ==
    /\ incoming.open /\ ~incoming.ended
    /\ incoming' = [incoming EXCEPT
                       !.stream = IF failed THEN Append(@, PollErr) ELSE @,
                       !.ended = TRUE]
    /\ UNCHANGED << client, oneshot, task, dataq, call, request, putVars,
                    outsideVars >>

\* messages of a response: frames that differ in every field
ServerData ==
    {[flight_descriptor |-> NoneV, data_header |-> << h >>,
      app_metadata |-> << h + 1 >>, data_body |-> << h + 2 >>] : h \in {1, 4}}

\* after finish_do_get or finish_do_put has returned a response
InitIncoming ==
    /\ QuietInit
    /\ put_trace = NoTrace
    /\ fds = NoStream
    /\ GuestInit
    /\ client = [state |-> St("Connected"), token |-> NoneV]
    /\ oneshot = NoChan
    /\ task = "none"
    /\ dataq = NoQueue
    /\ request = NoRequest
    /\ flight_descriptor = NoneV
    /\ \E kind \in {"get", "put"} :
          /\ call = [op |-> IF kind = "get" THEN "finish_do_get"
                            ELSE "finish_do_put",
                     ret |-> "Ok"]
          /\ incoming = new_incoming(kind)

NextIncoming ==
    \/ IncomingGet
    \/ IncomingReady
    \/ \E data \in ServerData : StreamArrive(data)
    \/ \E failed \in BOOLEAN : StreamEnd(failed)

SpecIncoming == InitIncoming /\ [][NextIncoming]_vars

\* the messages among what ready() holds back and what has arrived
RECURSIVE ItemsOf(_, _)
ItemsOf(kind, polls) ==
    IF polls = << >> THEN << >>
    ELSE (IF Head(polls).kind = "item"
          THEN << to_guest(kind, Unwrap(Head(polls).val)) >> ELSE << >>)
         \o ItemsOf(kind, Tail(polls))

\* a step in which get is called on the response
IncomingGetStep ==
    /\ incoming'.last = "get"
    /\ incoming' # incoming \/ incoming.last = "get"
    /\ incoming'.sent = incoming.sent
    /\ incoming'.ended = incoming.ended
    /\ incoming'.pending_data = NoneV

\* C38: in every interleaving of ready() and get() on an incoming response,
\* the values get returns as Some(item) are the messages of the server's
\* stream in order, each once; get returns WouldBlock only when no message is
\* pending and the stream has none, never right after ready() has completed;
\* and after the stream has ended get returns None.
C38_ItemsOnceInOrder ==
    /\ [](incoming.open =>
            incoming.got \o ItemsOf(incoming.kind, incoming.pending_data)
                \o ItemsOf(incoming.kind, incoming.stream) = incoming.sent)
    /\ [][IncomingGetStep =>
            /\ incoming'.ret.code = "WouldBlock" =>
                  /\ incoming.pending_data = NoneV
                  /\ incoming.stream = << >>
                  /\ ~incoming.ended
                  /\ incoming.last # "ready"
            /\ incoming.last = "ready" => incoming'.ret.code # "WouldBlock"
            /\ (incoming.ended /\ incoming.stream = << >>
                /\ ItemsOf(incoming.kind, incoming.pending_data) = << >>
                /\ incoming.pending_data # Some(PollErr)) =>
                  incoming'.ret = [code |-> "Ok", val |-> NoneV]
            /\ IsSome(incoming'.ret.val) =>
                  /\ incoming'.got = Append(incoming.got,
                                            Unwrap(incoming'.ret.val))
                  /\ Len(incoming'.got) <= Len(incoming.sent)
                  /\ Unwrap(incoming'.ret.val)
                       = incoming.sent[Len(incoming'.got)]]_vars

\* three messages were handed out, taken both from the pending slot and from
\* the stream, and the get after the end returned None
C38_Witness ==
    /\ incoming.open
    /\ Len(incoming.got) = MaxItems
    /\ incoming.got[1] # incoming.got[2]
    /\ incoming.ended
    /\ incoming.last = "get"
    /\ incoming.ret = [code |-> "Ok", val |-> NoneV]

(***************************************************************************)
(* The HTTP bridge mod-http-data-flight: /load_data and /save_data.  The   *)
(* handler's position is its locals in `bridge` together with the latest   *)
(* facade call in `call`: every facade call of the handler is unwrapped,   *)
(* so the handler goes on only from a call that returned Ok.               *)
(***************************************************************************)
\* the handler at its first facade call: the required headers are read.
\* body is what the FlightDataStream over the request body will yield; read,
\* seen and written record the frames read from the body, the decoded frames
\* of the response and the batches written to the HTTP response
begin(route, header, body) ==
    IF IsSome(header) /\ Unwrap(header) # << >>
    THEN [NoBridge EXCEPT
             !.route = route, !.st = "run", !.body = body,
             !.policy = IF route = "save_data" THEN header
                        ELSE Some(<< "{", "}" >>)]
    ELSE [NoBridge EXCEPT !.route = route, !.st = "panic"]

\* the handler runs and its latest facade call was op, which returned Ok
After(op) == bridge.st = "run" /\ call = [op |-> op, ret |-> "Ok"]

\* client.start_connect().unwrap()
BridgeConnect == After("none") /\ start_connect

\* AsyncPollable::new(client.subscribe()).wait_for().await
BridgeWait ==
    /\ bridge.st = "run" /\ call.ret = "Ok"
    /\ call.op \in {"start_connect", "start_handshake", "start_do_get",
                    "do_put"}
    /\ ready

\* client.finish_connect().unwrap()
BridgeFinishConnect ==
    After("start_connect") /\ client.state.tag = "ConnectReady"
    /\ finish_connect

\* client.start_handshake().unwrap()
BridgeHandshake == After("finish_connect") /\ start_handshake

\* client.finish_handshake().unwrap()
BridgeFinishHandshake ==
    After("start_handshake") /\ client.state.tag = "HandshakeReady"
    /\ finish_handshake

\* client.start_do_put().unwrap() of handle_save_data
SaveStartDoPut ==
    After("finish_handshake") /\ bridge.route = "save_data" /\ start_do_put

\* the handler is in the loop over the request body
InSaveLoop ==
    /\ bridge.route = "save_data"
    /\ After("start_do_put") \/ After("do_put")
    /\ client.state.tag = "DoPutSendProgress"

\* a frame read from the body has not been passed to do_put yet
FramePending == Len(bridge.read) > Len(put_trace.accepted)

save_frame_keeps_metadata(policy, flight_data) ==
    GuestData(flight_data.data_header, flight_data.app_metadata,
              flight_data.data_body)

\* `if let Some(policy) = policy.take() { flight_data.with_app_metadata(
\*  policy.into_bytes()) } else { flight_data }` and the MyFlightData of it
save_frame(policy, flight_data) ==
    GuestData(flight_data.data_header,
              IF IsSome(policy) THEN Unwrap(policy)
              ELSE flight_data.app_metadata,
              flight_data.data_body)

\* `flight_data_stream.next().await` yields the next item of the body
SaveNext ==
    /\ InSaveLoop /\ ~FramePending
    /\ bridge.body # << >>
    /\ bridge' =
          IF Head(bridge.body).ok
          THEN [bridge EXCEPT
                   !.body = Tail(@),
                   !.read = Append(@, Head(bridge.body).data),
                   !.frame = Some(save_frame(bridge.policy,
                                             Head(bridge.body).data)),
                   !.policy = NoneV]
          ELSE [bridge EXCEPT !.body = Tail(@)]
    /\ UNCHANGED << serverVars, codecVars, client, oneshot, task, dataq, call,
                    request, putVars, incoming >>

\* client.do_put(Some(&my_flight_data), false).unwrap()
SavePut ==
    /\ InSaveLoop /\ FramePending
    /\ do_put(bridge.frame, FALSE)

\* client.do_put(None, true).unwrap() after the loop
SaveFin ==
    /\ InSaveLoop /\ ~FramePending
    /\ bridge.body = << >>
    /\ do_put(NoneV, TRUE)

\* client.finish_do_put().unwrap()
SaveFinishDoPut ==
    After("do_put") /\ client.state.tag = "DoPutReady" /\ finish_do_put

\* the response of handle_save_data: wait for the put response, get() it and
\* start the HTTP response, or panic
SaveRespond ==
    /\ After("finish_do_put") /\ bridge.route = "save_data"
    /\ incoming_ready_resolves(incoming)
    /\ LET inc == incoming_get(incoming_ready(incoming)) IN
       /\ incoming' = inc
       /\ bridge' =
             IF inc.ret.code = "Ok" /\ IsSome(inc.ret.val)
             THEN [bridge EXCEPT
                      !.st = "done",
                      !.response =
                          Some([name |-> "X-Yak-Table-Name",
                                value |-> from_utf8_lossy(
                                    Unwrap(inc.ret.val).app_metadata)])]
             ELSE [bridge EXCEPT !.st = "panic"]
    /\ UNCHANGED << serverVars, codecVars, client, oneshot, task, dataq, call,
                    request, putVars >>

\* client.start_do_get(&ticket.into_bytes()).unwrap() of handle_load_data
LoadStartDoGet ==
    After("finish_handshake") /\ bridge.route = "load_data" /\ start_do_get

\* client.finish_do_get().unwrap()
LoadFinishDoGet ==
    After("start_do_get") /\ client.state.tag = "DoGetReady" /\ finish_do_get

\* FlightDataDecoder on one frame: the payload by the kind of message in the
\* data header; a record batch ahead of every schema is an error
decode(has_schema, data) ==
    IF data.data_header = << "S" >> THEN [ok |-> TRUE, payload |-> "Schema"]
    ELSE IF data.data_header = << "B" >>
    THEN [ok |-> has_schema, payload |-> "RecordBatch"]
    ELSE [ok |-> TRUE, payload |-> "None"]

\* the body of `while let Some(data) = stream.next().await` of
\* handle_load_data for one frame of the response
load_frame(b, data) ==
    LET d == decode(b.has_schema, data)
        policy == IF data.app_metadata # << >>
                  THEN Some(from_utf8_lossy(data.app_metadata))
                  ELSE b.policy
    IN IF ~d.ok THEN b
       ELSE IF d.payload = "RecordBatch"
       THEN IF IsSome(b.response)
            THEN [b EXCEPT !.policy = policy,
                           !.seen = Append(@, [app_metadata |-> data.app_metadata,
                                               payload |-> d.payload]),
                           !.written = Append(@, data.data_body)]
            ELSE [b EXCEPT !.policy = NoneV,
                           !.seen = Append(@, [app_metadata |-> data.app_metadata,
                                               payload |-> d.payload]),
                           !.response = Some([name |-> "X-Yak-Policy",
                                              value |-> Unwrap(policy)]),
                           !.written = Append(@, data.data_body)]
       ELSE [b EXCEPT !.policy = policy,
                      !.seen = Append(@, [app_metadata |-> data.app_metadata,
                                               payload |-> d.payload]),
                      !.has_schema = @ \/ d.payload = "Schema"]

\* what handle_load_data does with the result of get() that
\* MyWasiFlightDataStream::poll_next passes on: a frame, an error that is
\* printed, or the end of the stream and `outgoing_body.unwrap()`
load_item(b, ret) ==
    IF ret.code = "Ok" /\ IsSome(ret.val) THEN load_frame(b, Unwrap(ret.val))
    ELSE IF ret.code = "Ok"
    THEN [b EXCEPT !.st = IF IsSome(b.response) THEN "done" ELSE "panic"]
    ELSE b

\* MyWasiFlightDataStream::poll_next with no wait under way: get(), and on
\* WouldBlock the subscription that the stream then waits for
LoadPoll ==
    /\ After("finish_do_get") /\ bridge.route = "load_data"
    /\ ~bridge.fut
    /\ LET inc == incoming_get(incoming) IN
       /\ incoming' = inc
       /\ bridge' = IF inc.ret.code = "WouldBlock"
                    THEN [bridge EXCEPT !.fut = TRUE]
                    ELSE load_item(bridge, inc.ret)
    /\ UNCHANGED << serverVars, codecVars, client, oneshot, task, dataq, call,
                    request, putVars >>

\* MyWasiFlightDataStream::poll_next when the wait is over: get() again
LoadWake ==
    /\ After("finish_do_get") /\ bridge.route = "load_data"
    /\ bridge.fut
    /\ incoming_ready_resolves(incoming)
    /\ LET inc == incoming_get(incoming_ready(incoming)) IN
       /\ incoming' = inc
       /\ bridge' = load_item([bridge EXCEPT !.fut = FALSE], inc.ret)
    /\ UNCHANGED << serverVars, codecVars, client, oneshot, task, dataq, call,
                    request, putVars >>

\* the number of items the request body of /save_data decodes to
MaxBody == 2

\* the value of the X-Yak-Policy request header, and the table name the
\* server answers a DoPut with
PolicyText == << "p" >>
TableText == << "1" >>

\* what the FlightDataStream over a request body yields: a frame with no
\* app_metadata, one with its own, and an error
BodyItems ==
    {[ok |-> TRUE, data |-> GuestData(<< "S" >>, << >>, << "x" >>)],
     [ok |-> TRUE, data |-> GuestData(<< "B" >>, << "q" >>, << "y" >>)],
     [ok |-> FALSE, data |-> GuestData(<< >>, << >>, << >>)]}
Bodies == UNION {[1..n -> BodyItems] : n \in 0..MaxBody}

\* the messages of the server: the PutResult of a DoPut, and for a DoGet a
\* schema with the policy, batches with and without app_metadata and a
\* message that is neither
Frame(h, m, b) ==
    [flight_descriptor |-> NoneV, data_header |-> h, app_metadata |-> m,
     data_body |-> b]
BridgeData(route) ==
    IF route = "save_data" THEN {Frame(<< >>, TableText, << >>)}
    ELSE {Frame(<< "S" >>, << "a" >>, << >>),
          Frame(<< "B" >>, << >>, << "x" >>),
          Frame(<< "B" >>, << "b" >>, << "y" >>),
          Frame(<< "N" >>, << >>, << >>)}

InitBridge ==
    /\ QuietInit
    /\ put_trace = [NoTrace EXCEPT !.tracing = TRUE]
    /\ ClientInit
    /\ fds = NoStream
    /\ fpd = NoPredicate
    /\ \/ \E header \in {NoneV, Some(<< >>), Some(PolicyText)},
             body \in Bodies :
             bridge = begin("save_data", header, body)
       \/ \E header \in {NoneV, Some(<< "1" >>)} :
             bridge = begin("load_data", header, << >>)

NextBridge ==
    \/ BridgeConnect
    \/ BridgeWait
    \/ BridgeFinishConnect
    \/ BridgeHandshake
    \/ BridgeFinishHandshake
    \/ SaveStartDoPut
    \/ SaveNext
    \/ SavePut
    \/ SaveFin
    \/ SaveFinishDoPut
    \/ SaveRespond
    \/ LoadStartDoGet
    \/ LoadFinishDoGet
    \/ LoadPoll
    \/ LoadWake
    \/ \E out \in TaskOutcomes(task) : TaskComplete(out)
    \/ TaskRecvFrame
    \/ \E data \in BridgeData(bridge.route) : StreamArrive(data)
    \/ \E failed \in BOOLEAN : StreamEnd(failed)

SpecBridge == InitBridge /\ [][NextBridge]_vars

\* the facade call after which the handler makes the call op
CalledAfter(op) ==
    IF op = "start_connect" THEN {"none"}
    ELSE IF op = "finish_connect" THEN {"start_connect"}
    ELSE IF op = "start_handshake" THEN {"finish_connect"}
    ELSE IF op = "finish_handshake" THEN {"start_handshake"}
    ELSE IF op = "start_do_put" THEN {"finish_handshake"}
    ELSE IF op = "do_put" THEN {"start_do_put", "do_put"}
    ELSE IF op = "finish_do_put" THEN {"do_put"}
    ELSE { }

\* the frames read from the body as do_put must have received them: the
\* policy text in place of the app_metadata of the first and of no other
WithPolicyOnFirst(read) ==
    [i \in DOMAIN read |->
        IF i = 1 THEN [read[i] EXCEPT !.app_metadata = PolicyText]
        ELSE read[i]]

\* a step in which do_put(None, true) is accepted
FinStep ==
    /\ client.state.tag = "DoPutSendProgress"
    /\ client'.state.tag = "DoPutRecvProgress"

WithMetadata(seen) == {i \in DOMAIN seen : seen[i].app_metadata # << >>}

\* the first of a non-empty set of positions, and the last
First(S) == CHOOSE i \in S : \A j \in S : i <= j
Last(S) == CHOOSE i \in S : \A j \in S : j <= i

\* C34: for every Flight stream that /load_data decodes, the X-Yak-Policy
\* response header is the first non-empty app_metadata observed on the
\* stream, later non-empty app_metadata do not change it, and the header is
\* fixed before any body byte is written.
C34_PolicyHeaderIsFirstMetadata ==
    /\ []((bridge.route = "load_data" /\ IsSome(bridge.response)
           /\ WithMetadata(bridge.seen) # { }) =>
            Unwrap(bridge.response).value =
                from_utf8_lossy(
                    bridge.seen[First(WithMetadata(bridge.seen))].app_metadata))
    /\ [](bridge.written # << >> => IsSome(bridge.response))
    /\ [][IsSome(bridge.response) => bridge'.response = bridge.response]_vars

\* what does hold: the header is the latest non-empty app_metadata among the
\* frames up to the first record batch, that batch included, and "{}" when
\* none of them carries any; it is set with the first batch and never changes
PolicyHeaderIsLatestMetadata ==
    /\ []((bridge.route = "load_data" /\ IsSome(bridge.response)) =>
            LET batches == {i \in DOMAIN bridge.seen :
                              bridge.seen[i].payload = "RecordBatch"}
                upto == {i \in WithMetadata(bridge.seen) : i <= First(batches)}
            IN /\ batches # { }
               /\ Unwrap(bridge.response).name = "X-Yak-Policy"
               /\ Unwrap(bridge.response).value =
                     IF upto = { } THEN << "{", "}" >>
                     ELSE from_utf8_lossy(bridge.seen[Last(upto)].app_metadata))
    /\ [](bridge.written # << >> => IsSome(bridge.response))
    /\ [][IsSome(bridge.response) => bridge'.response = bridge.response]_vars

\* the places that hold the transport handle: the Connected state, a *Ready
\* state with the received completion, the completion in the one-shot
\* channel, the running task
Holders ==
    (IF client.state.tag = "Connected"
        \/ (IsSome(client.state.res) /\ Unwrap(client.state.res).recv_ok)
     THEN {"state"} ELSE { })
    \cup (IF oneshot.st = "sent" THEN {"channel"} ELSE { })
    \cup (IF task # "none" THEN {"task"} ELSE { })

\* C35: at most one background operation is in flight per client and the
\* transport handle is held in one place only, the Connected state, the
\* running task, or the completion in the channel or in a *Ready state: no
\* sequence of start_*, do_put, finish_* and ready spawns a second task while
\* one is in flight or lets two holders have the transport.
C35_OneHolder ==
    /\ [](Cardinality(Holders) <= 1)
    /\ [][/\ task # "none" => task' \in {task, "none"}
          /\ (task = "none" /\ task' # "none") =>
                /\ client.state.tag \in {"Default", "Connected"}
                /\ Holders \subseteq {"state"}
                /\ oneshot' = PendingChan]_vars

\* a DoPut task was started from Connected, after the handshake task had
\* handed the transport back
C35_Witness ==
    /\ task = "do_put"
    /\ client.state.tag = "DoPutSendProgress"
    /\ IsSome(client.token)
    /\ Holders = {"task"}

\* the session tokens the server has sent in a round-2 reply
EmittedTokens ==
    {hs[s].sent[2].payload : s \in {t \in Streams : Len(hs[t].sent) >= 2}}

StoredGet ==
    /\ rpc.op = "do_get"
    /\ rpc.status.code # "unauthenticated"
    /\ rpc.body.ticket.json_ok
    /\ rpc.body.ticket.target # StrSystem
\* the table the latest DoGet names
GetTable == table_name(Unwrap(rpc.subject), rpc.body.ticket.target)

\* C39: a DoGet for a target other than "system" sends no FlightData unless a
\* policy row is stored for the table "{subject}_{target}": when the table
\* exists without a policy row the call returns internal and sends no frame.
C39_NoDataWithoutPolicy ==
    (StoredGet /\ ~HasPolicy(storage_db, GetTable)) =>
        /\ rpc.resp = << >>
        /\ HasTable(storage_db, GetTable) => rpc.status.code = "internal"

\* the table was written with rows and without a policy, and the DoGet for
\* its column ended with the policy lookup failing
C39_Witness ==
    /\ StoredGet
    /\ HasTable(storage_db, GetTable)
    /\ TableOf(storage_db, GetTable).rows # << >>
    /\ ~HasPolicy(storage_db, GetTable)
    /\ rpc.ops = << "get", "get_policy" >>
    /\ rpc.status = Status("internal", "failed to get policy")
    /\ rpc.resp = << >>

(***************************************************************************)
(* Tenants: several authenticated subjects storing and reading tables      *)
(* through one server.                                                     *)
(***************************************************************************)
\* OIDC subjects: "o|a", "o_a" and "o|a_2"
SubUnder == << "o", "_", "a" >>
SubLong == << "o", "|", "a", "_", "2" >>
TenantSubs == {SubAlice, SubUnder, SubLong}
\* the value each subject writes into its tables
MarkerOf(sub) ==
    CASE sub = SubAlice -> 11
      [] sub = SubUnder -> 12
      [] sub = SubLong -> 13
\* the authorization header of a subject's requests
TenantAuth(sub) == Some(StrBearerSp \o << "K", "V" >> \o sub)
\* the targets a reader asks for: the name a DoPut at second 1 returns, and
\* a text of its own choice
Target21 == << "2", "_", "1" >>
TenantTargets == {Target1, Target21}
TenantPuts ==
    {[xyak |-> FirstToken, auth |-> TenantAuth(sub),
      frames |-> << SchemaFrameOf(SchemaX, << PolicyX >>),
                    BatchFrameOf(SchemaX, << Cell(MarkerOf(sub)) >>) >>,
      now |-> 1] : sub \in TenantSubs}
TenantGets ==
    {[xyak |-> FirstToken, auth |-> TenantAuth(sub),
      ticket |-> [json_ok |-> TRUE, target |-> t, column_name |-> ColX],
      provider |-> ProviderOk] : sub \in TenantSubs, t \in TenantTargets}

InitTenants ==
    /\ QuietInit
    /\ put_trace = NoTrace
    /\ fds = NoStream
    /\ ClientInit
    /\ GuestInit

NextTenants ==
    \/ HandshakeOpen(1)
    \/ HandshakeRound1(1, Bytes(ChallengeLen, 1))
    \/ \E req \in ServiceReports :
          HandshakeRound2(1, req, Bytes(TokenLen, 10))
    \/ \E req \in TenantGets : DoGet(req)
    \/ \E req \in TenantPuts : DoPut(req)

SpecTenants == InitTenants /\ [][NextTenants]_vars

\* the OIDC subject the request's JWT names
RequestSub == claims_sub(CarriedToken(rpc.auth))
\* the last call is a DoGet that returned the rows of a stored table
ServedStoredGet ==
    /\ rpc.op = "do_get"
    /\ rpc.status.code = "ok"
    /\ rpc.body.ticket.target # StrSystem
    /\ ReturnedColumn(rpc.resp) # << >>

\* C37: a DoGet authorised for one subject never returns rows of a table
\* that a DoPut authorised for a different subject created, whatever target
\* the reader names: every value it returns was written by the reader's own
\* subject.
C37_TenantIsolation ==
    ServedStoredGet =>
        \A i \in DOMAIN ReturnedColumn(rpc.resp) :
            ReturnedColumn(rpc.resp)[i] = Some(MarkerOf(RequestSub))

\* what the code keeps instead: the rows come from the table named by the
\* reader's subject after '|' -> '_', '_' and the target
ReadsNamedTable ==
    ServedStoredGet =>
        /\ HasTable(storage_db,
                    table_name(replace_pipe(RequestSub), rpc.body.ticket.target))
        /\ rpc.subject = Some(replace_pipe(RequestSub))

\* a reader whose subject is a prefix of the writer's: "o|a" naming the
\* target "2_1" is served the table "o_a_2_1" that "o|a_2" created at second 1
ReadsAcrossPrefix ==
    /\ ServedStoredGet
    /\ RequestSub = SubAlice
    /\ rpc.body.ticket.target = Target21
    /\ ReturnedColumn(rpc.resp) = << Some(MarkerOf(SubLong)) >>

(***************************************************************************)
(* The end of a DoPut: the request stream, the task's completion and       *)
(* finish_do_put.                                                          *)
(***************************************************************************)
\* The tokio runtime runs the spawned task: the request stream takes the
\* queued frames, and the service answers, so the task ends; the guest
\* awaits the pollable and then calls finish_do_put.
SpecClientServed ==
    /\ SpecClient
    /\ WF_vars(ready)
    /\ WF_vars(finish_do_put)
    /\ WF_vars(TaskRecvFrame)
    /\ WF_vars(\E out \in TaskOutcomes(task) : TaskComplete(out))
SpecPutServed ==
    /\ SpecPut
    /\ WF_vars(ready)
    /\ WF_vars(finish_do_put)
    /\ WF_vars(TaskRecvFrame)
    /\ WF_vars(\E out \in TaskOutcomes(task) : TaskComplete(out))

\* a do_put with fin = true has been accepted and its result not yet taken
AfterFin == client.state.tag \in {"DoPutRecvProgress", "DoPutReady"}
\* `stream.next().await` of the running DoPut task returns None: every
\* sender of the queue is dropped and no frame is left
StreamEnded ==
    /\ task = "do_put" /\ request.built
    /\ dataq.rx_open /\ ~dataq.tx_open /\ dataq.items = << >>
\* finish_do_put has returned the operation's result
FinishAnswered ==
    /\ call.op = "finish_do_put"
    /\ call.ret \notin {"WouldBlock", "NotInProgress"}

\* C40: after a do_put with fin = true is accepted the send queue is closed,
\* so the request stream ends after the last queued frame; the task then
\* delivers its completion, ready() completes and finish_do_put eventually
\* returns something other than WouldBlock; and without a do_put with
\* fin = true the request stream never ends.
C40_FinEndsRequestStream ==
    /\ [](AfterFin => ~dataq.tx_open)
    /\ (AfterFin ~> FinishAnswered)
    /\ [](StreamEnded => AfterFin)

\* what the code keeps: the queue closes with fin, and the operation is
\* answered
FinClosesAndAnswers ==
    /\ [](AfterFin => ~dataq.tx_open)
    /\ (AfterFin ~> FinishAnswered)
\* the sender of the queue is dropped by an accepted do_put with fin = true
\* and by a do_put whose try_send fails, and by nothing else
SenderDroppedByDoPut ==
    [][(dataq.tx_open /\ ~dataq'.tx_open)
          => /\ \E data \in PutData, fin \in BOOLEAN : do_put(data, fin)
             /\ \/ call'.ret = "Ok" /\ AfterFin'
                \/ call'.ret \in {"WouldBlock", "InternalError"}
                      /\ client'.state.tag = "Closed"]_vars
\* the request stream that ends after fin has yielded every accepted frame
EndedStreamYieldedAll ==
    (put_trace.tracing /\ StreamEnded /\ AfterFin)
        => Len(put_trace.yielded) = Len(put_trace.accepted)
\* the request stream has ended after a do_put that returned WouldBlock
EndedWithoutFin ==
    /\ StreamEnded
    /\ client.state.tag = "Closed"
    /\ call = [op |-> "do_put", ret |-> "WouldBlock"]
====
